---- MODULE Spec2Model ----
(***************************************************************************)
(* One chat turn of the Research Agent: the chat page's sendMessage /      *)
(* convertToFile handlers (frontend/app/chat/page.tsx) reading the event   *)
(* stream of POST /api/chat/{id}/message, the byte stream between server   *)
(* and page, and the agent tool-dispatch / streaming pipeline that         *)
(* produces the stream.  The pipeline (Agent Router, Streaming             *)
(* Multiplexer, Chat Endpoint) is the backend; it is modelled from the     *)
(* design document (sections 4.2, 4.3, 5, 6, 7).                           *)
(*                                                                         *)
(* Text on the wire is a sequence of tokens.  An event line               *)
(*     data: {"type":"tool","content":"x"}\n                               *)
(* is the five tokens  marker "data:", space, JSON head {"type":T, JSON    *)
(* tail "content":C}, newline, so that a read chunk can end between any    *)
(* two of them.                                                            *)
(***************************************************************************)
EXTENDS Integers, Sequences, FiniteSets, TLC

VARIABLES
    \* ---- chat page (frontend/app/chat/page.tsx) ----
    messages,          \* useState<Message[]>, line 48
    loading,           \* useState(false), line 50
    cpc,               \* where the running handler is: idle/fetching/reading/dispatch/done/failed
    handler,           \* which handler runs: "none", "send" or "convert"
    assistantMessage,  \* the handler's local `assistantMessage`, lines 360 and 482
    lines,             \* the lines of the current chunk still to be handled by the for loop
    received,          \* history: the events the for loop decoded and dispatched, in order
    \* ---- transport ----
    wire,              \* tokens written by the server and not yet read by the page
    wireClosed,        \* the server has ended the response body
    connected,         \* the page still holds the connection
    sent,              \* number of lines the server has written
    \* ---- agent pipeline (backend) ----
    srvPc,             \* idle/requested/routing/invoking/responding/terminal/closed/cancelled (streaming: an arbitrary server)
    planLen,           \* number of tool calls the selection policy proposed for this turn
    required,          \* the policy marks the call in flight as required for the next step
    step,              \* index in plan of the next proposed call
    started,           \* number of tool invocations started in this turn
    invocations,       \* the completed ToolInvocations of the turn, in start order
    emitted,           \* history: the StreamEvents produced, in order
    persisted          \* what persist_turn stored for the turn

VARIABLES
    \* ---- tool registry (backend, design document 4.1) ----
    registry,          \* the registered ToolSpecs, in registration order
    regPhase,          \* startup (registration), serving (read-only), failed (startup aborted)
    regResult          \* what the last register/resolve call returned or raised

registryVars == <<registry, regPhase, regResult>>

VARIABLES
    \* ---- browser ----
    location,          \* the route the router shows: "/", "/auth" or "/chat"
    token,             \* localStorage item 'token' ("none": no item)
    now,               \* the last value Date.now() returned (it never runs backwards here)
    focus,             \* the element with focus: body, message (the message input), search (the search modal's input)
    \* ---- chat page (frontend/app/chat/page.tsx), besides messages and loading ----
    mounted,           \* the page's mount effects have run
    chats,             \* useState<Chat[]>, line 46 (the chat ids, as listed)
    currentChatId,     \* line 47 (0: null)
    input,             \* line 49
    uploadedFiles,     \* line 52 (their number)
    showUpload,        \* line 51
    showSearch,        \* line 60
    showShortcuts,     \* line 69
    error,             \* line 56 ("": null)
    isInitialLoading,  \* line 57
    kb,                \* the state values seen by the registered keydown listener (lines 84-120)
    listPending,       \* number of GET /api/chat/list requests in flight
    creating,          \* the createNewChat calls awaiting their answer: the `chats` each one sees
    opening,           \* the loadChat calls awaiting their answer: the chat each one asked for
    calls,             \* the sendMessage / convertToFile calls made, in call order
    serverChats,       \* the chats the server holds, newest first
    deleting,          \* the deleteChat calls awaiting their answer: the chat, and the values each one sees
    deletedChats,      \* the chats the server has deleted
    \* ---- root layout (frontend/app/layout.tsx) ----
    theme,             \* useState('dark'), line 12
    savedTheme,        \* localStorage item 'theme' ("none": no item)
    dataTheme,         \* attribute data-theme of the document element ("none": not set)
    layoutMounted,     \* the layout's mount effect has run
    \* ---- auth page (frontend/app/auth/page.tsx) ----
    isLogin,           \* line 9
    authLoading,       \* `loading`, line 10
    authError,         \* `error`, line 11
    authPc             \* idle, or waiting: handleSubmit awaits the answer

VARIABLES
    \* ---- an assistant message on the chat page (lines 674-689) ----
    shownContent,      \* msg.content, as tokens
    shownFiles         \* what the calls of extractDownloadableFiles(msg.content) returned, in call order

fileVars    == <<shownContent, shownFiles>>
browserVars == <<location, token, now, focus>>
pageVars    == <<mounted, chats, currentChatId, input, uploadedFiles, showUpload, showSearch,
                 showShortcuts, error, isInitialLoading, kb, listPending, creating, opening,
                 calls, serverChats, deleting, deletedChats>>
layoutVars  == <<theme, savedTheme, dataTheme, layoutMounted>>
authVars    == <<isLogin, authLoading, authError, authPc>>

clientVars == <<messages, loading, cpc, handler, assistantMessage, lines, received>>
wireVars   == <<wire, wireClosed, connected, sent>>
serverVars == <<srvPc, planLen, required, step, started, invocations, emitted, persisted>>
\* everything outside the chat turn: the tool registry and the other parts of the site
siteVars   == <<registryVars, browserVars, pageVars, layoutVars, authVars, fileVars>>
vars       == <<clientVars, wireVars, serverVars, siteVars>>

----------------------------------------------------------------------------
\* Bounds of the model

\* the selection policy proposes at most MaxPlan tool calls for a turn
MaxPlan == 3
\* the response text is produced in at most MaxRespEvents increments
MaxRespEvents == 2
\* an arbitrary server (SpecWire) writes at most MaxLines lines
MaxLines == 2

\* Date.now() at the send, counted from the largest stored message id (any
\* later time gives the same turn)
SendTime == 1

\* The router's configured maximum of sequential tool calls per turn (4.2 (a))
MaxToolCalls == 2

----------------------------------------------------------------------------
\* Wire text

Tok(k, v) == [k |-> k, v |-> v]
Marker == Tok("marker", "data:")
Space  == Tok("sp", " ")
NL     == Tok("nl", "\n")
Junk   == Tok("junk", "detail")

\* A StreamEvent
Event(type, content) == [type |-> type, content |-> content]

\* chunk.split("\n"): the pieces between newlines, empty pieces kept
RECURSIVE SplitNL(_)
SplitNL(s) ==
    IF s = <<>> THEN << <<>> >>
    ELSE IF Head(s).k = "nl" THEN << <<>> >> \o SplitNL(Tail(s))
    ELSE LET r == SplitNL(Tail(s))
         IN  << <<Head(s)>> \o Head(r) >> \o Tail(r)

\* Mutant of StartsWithData: the filter keeps every line.
KeepsEveryLine(l) == TRUE

\* l.startsWith("data:")
StartsWithData(l) == Len(l) >= 1 /\ l[1].k = "marker"

\* chunk.split("\n").filter((l) => l.startsWith("data:"))
ChunkLines(chunk) == SelectSeq(SplitNL(chunk), StartsWithData)

\* line.replace("data: ", ""): the first occurrence of "data: " is removed
StripData(l) ==
    LET hits == {i \in 1..(Len(l) - 1) : l[i].k = "marker" /\ l[i + 1].k = "sp"}
    IN  IF hits = {} THEN l
        ELSE LET i == CHOOSE j \in hits : \A h \in hits : j <= h
             IN  SubSeq(l, 1, i - 1) \o SubSeq(l, i + 2, Len(l))

\* JSON.parse(text): succeeds on exactly one object {"type":T,"content":C}
NoData == [ok |-> FALSE, type |-> "", content |-> ""]
JSONParse(text) ==
    IF Len(text) = 2 /\ text[1].k = "head" /\ text[2].k = "tail"
    THEN [ok |-> TRUE, type |-> text[1].v, content |-> text[2].v]
    ELSE NoData

----------------------------------------------------------------------------
\* Chat page: the handlers of one turn

Msg(id, role, content, toolOutputs) ==
    [id |-> id, role |-> role, content |-> content, toolOutputs |-> toolOutputs]

NoMessage == Msg(0, "none", "", <<>>)

\* A chat loaded by loadChat (lines 262-280) holds the stored messages, with
\* their database ids; here one earlier assistant answer.
LoadedMessages == << Msg(0, "assistant", "old", <<>>) >>

\* The ids of the turn's messages come from Date.now(): the user message gets
\* the time of the send (line 335), the assistant message of sendMessage the
\* time the response arrived plus one (line 361), that of convertToFile the
\* time the response arrived (line 483).  Within one turn only their being
\* different from each other and from the stored ids matters; the turn is
\* placed at time SendTime and the response arrives without delay.
UserId == SendTime
AssistantId(h) == IF h = "send" THEN SendTime + 1 ELSE SendTime

\* Mutant of Dispatch: a response event is appended to the content.
DispatchAppendsText(msg, data) ==
    IF data.type = "tool"
    THEN [msg EXCEPT !.toolOutputs = Append(@, data.content)]
    ELSE IF data.type = "response"
    THEN [msg EXCEPT !.content = @ \o data.content]
    ELSE msg

\* Mutant of Dispatch: a tool event is put at the front of toolOutputs.
DispatchPrependsTool(msg, data) ==
    IF data.type = "tool"
    THEN [msg EXCEPT !.toolOutputs = <<data.content>> \o @]
    ELSE IF data.type = "response"
    THEN [msg EXCEPT !.content = data.content]
    ELSE msg

\* Mutant of Dispatch: a response event is also added to toolOutputs.
DispatchTracesResponse(msg, data) ==
    IF data.type = "tool"
    THEN [msg EXCEPT !.toolOutputs = Append(@, data.content)]
    ELSE IF data.type = "response"
    THEN [msg EXCEPT !.content = data.content, !.toolOutputs = Append(@, data.content)]
    ELSE msg

\* if (data.type === "tool") ... else if (data.type === "response") ...
\* (lines 379-386 and 501-508)
Dispatch(msg, data) ==
    IF data.type = "tool"
    THEN [msg EXCEPT !.toolOutputs = Append(@, data.content)]
    ELSE IF data.type = "response"
    THEN [msg EXCEPT !.content = data.content]
    ELSE msg

\* prev.map((m) => (m.id === assistantMessage.id ? { ...assistantMessage } : m))
ReplaceById(prev, am) ==
    [i \in 1..Len(prev) |-> IF prev[i].id = am.id THEN am ELSE prev[i]]

\* msg.role === "assistant" && msg.toolOutputs && msg.toolOutputs.length > 0
\* (line 643): the "Show Thinking" section is rendered
ShowThinking(m) == m.role = "assistant" /\ Len(m.toolOutputs) > 0

\* the Word/PDF/PPT/Voice buttons of a message (lines 691-705)
ConvertOffered(m) == m.role = "assistant" /\ m.content # ""

\* sendMessage from line 334: the user message is appended, loading is set and
\* the POST is issued.
SendMessage ==
    /\ cpc = "idle"
    /\ srvPc = "idle"
    /\ messages' = Append(messages, Msg(UserId, "user", "q", <<>>))
    /\ loading' = TRUE
    /\ handler' = "send"
    /\ cpc' = "fetching"
    /\ srvPc' = "requested"
    /\ UNCHANGED <<assistantMessage, lines, received>>
    /\ UNCHANGED wireVars
    /\ UNCHANGED <<planLen, required, step, started, invocations, emitted, persisted>>
    /\ UNCHANGED siteVars

\* convertToFile (lines 456-478): offered on an assistant message with
\* content, its buttons disabled while loading.
ConvertToFile ==
    /\ cpc = "idle"
    /\ srvPc = "idle"
    /\ ~loading
    /\ \E i \in 1..Len(messages) : ConvertOffered(messages[i])
    /\ loading' = TRUE
    /\ handler' = "convert"
    /\ cpc' = "fetching"
    /\ srvPc' = "requested"
    /\ UNCHANGED <<messages, assistantMessage, lines, received>>
    /\ UNCHANGED wireVars
    /\ UNCHANGED <<planLen, required, step, started, invocations, emitted, persisted>>
    /\ UNCHANGED siteVars

\* await fetch(...) throws (no answer): catch, then finally setLoading(false)
\* (lines 396-400, 515-519)
FetchFail ==
    /\ cpc = "fetching"
    /\ srvPc = "requested"
    /\ cpc' = "failed"
    /\ loading' = FALSE
    /\ connected' = FALSE
    /\ UNCHANGED <<messages, handler, assistantMessage, lines, received>>
    /\ UNCHANGED <<wire, wireClosed, sent>>
    /\ UNCHANGED serverVars
    /\ UNCHANGED siteVars

\* fetch resolves with the response, whatever its status: the reader is taken
\* and the empty assistant message is appended (lines 358-367, 480-489).
FetchResolve ==
    /\ cpc = "fetching"
    /\ srvPc \notin {"idle", "requested"}
    /\ connected
    /\ LET am == Msg(AssistantId(handler), "assistant", "", <<>>)
       IN  /\ assistantMessage' = am
           /\ messages' = Append(messages, am)
    /\ cpc' = "reading"
    /\ UNCHANGED <<loading, handler, lines, received>>
    /\ UNCHANGED wireVars
    /\ UNCHANGED serverVars
    /\ UNCHANGED siteVars

\* One reader.read() that returns a chunk (lines 370-374): any non-empty prefix
\* of what is in flight; the chunk is split and filtered.
ReadChunk ==
    /\ cpc = "reading"
    /\ connected
    /\ wire # <<>>
    /\ \E n \in 1..Len(wire) :
          /\ lines' = ChunkLines(SubSeq(wire, 1, n))
          /\ wire' = SubSeq(wire, n + 1, Len(wire))
    /\ cpc' = IF lines' = <<>> THEN "reading" ELSE "dispatch"
    /\ UNCHANGED <<messages, loading, handler, assistantMessage, received>>
    /\ UNCHANGED <<wireClosed, connected, sent>>
    /\ UNCHANGED serverVars
    /\ UNCHANGED siteVars

\* One iteration of `for (const line of lines)` (lines 376-391, 498-513).  The
\* loop runs without awaiting, so no other handler of the page runs before it
\* has handled the last line.
ProcessLine ==
    /\ cpc = "dispatch"
    /\ lines # <<>>
    /\ LET data == JSONParse(StripData(Head(lines)))
       IN  IF data.ok
           THEN /\ assistantMessage' = Dispatch(assistantMessage, data)
                /\ messages' = ReplaceById(messages, assistantMessage')
                /\ received' = IF data.type \in {"tool", "response"}
                               THEN Append(received, Event(data.type, data.content))
                               ELSE received
           ELSE UNCHANGED <<assistantMessage, messages, received>>
    /\ lines' = Tail(lines)
    /\ cpc' = IF lines' = <<>> THEN "reading" ELSE "dispatch"
    /\ UNCHANGED <<loading, handler>>
    /\ UNCHANGED wireVars
    /\ UNCHANGED serverVars
    /\ UNCHANGED siteVars

\* reader.read() returns done: the loop ends and finally sets loading false
\* (lines 371, 394-400; 493, 517-519).
ReadDone ==
    /\ cpc = "reading"
    /\ connected
    /\ wire = <<>>
    /\ wireClosed
    /\ cpc' = "done"
    /\ loading' = FALSE
    /\ UNCHANGED <<messages, handler, assistantMessage, lines, received>>
    /\ UNCHANGED wireVars
    /\ UNCHANGED serverVars
    /\ UNCHANGED siteVars

\* The connection is lost while the body is being read: reader.read() rejects,
\* the catch logs and finally sets loading false.
Disconnect ==
    /\ cpc = "reading"
    /\ connected
    /\ ~(wire = <<>> /\ wireClosed)
    /\ connected' = FALSE
    /\ cpc' = "failed"
    /\ loading' = FALSE
    /\ UNCHANGED <<messages, handler, assistantMessage, lines, received>>
    /\ UNCHANGED <<wire, wireClosed, sent>>
    /\ UNCHANGED serverVars
    /\ UNCHANGED siteVars

ClientNext ==
    \/ SendMessage
    \/ ConvertToFile
    \/ FetchFail
    \/ FetchResolve
    \/ ReadChunk
    \/ ProcessLine
    \/ ReadDone
    \/ Disconnect

----------------------------------------------------------------------------
\* The wire format of section 6

\* one StreamEvent as a line: data: {"type":T,"content":C}\n
Serialize(ev) ==
    << Marker, Space, Tok("head", ev.type), Tok("tail", ev.content), NL >>

\* No call has been made on the registry.
NoCall == [op |-> "none", status |-> "none", arg |-> "", spec |-> ""]

RegistryIdle ==
    /\ registry = <<>>
    /\ regPhase = "startup"
    /\ regResult = NoCall

\* no assistant message is looked at
FilesIdle ==
    /\ shownContent = <<>>
    /\ shownFiles = <<>>

\* The server holds one chat when the page is opened; its stored messages are
\* LoadedMessages.
ExistingChats == << 1 >>

\* the id the server gives the next chat it creates: ids are not used again
NewChatId == Len(serverChats) + Cardinality(deletedChats) + 1

\* the state values a handler created by the current render sees
Closure ==
    [chats |-> chats, messages |-> messages, input |-> input,
     uploadedFiles |-> uploadedFiles, currentChatId |-> currentChatId]

\* the handlers of the first render (lines 46-57)
FirstRender ==
    [chats |-> <<>>, messages |-> <<>>, input |-> "",
     uploadedFiles |-> 0, currentChatId |-> 0]

\* The chat page as constructed (useState initial values, lines 46-69), before
\* its effects have run.
PageIdle ==
    /\ mounted = FALSE
    /\ chats = <<>>
    /\ currentChatId = 0
    /\ input = ""
    /\ uploadedFiles = 0
    /\ showUpload = FALSE
    /\ showSearch = FALSE
    /\ showShortcuts = FALSE
    /\ error = ""
    /\ isInitialLoading = TRUE
    /\ kb = FirstRender
    /\ listPending = 0
    /\ creating = <<>>
    /\ opening = <<>>
    /\ calls = <<>>
    /\ serverChats = ExistingChats
    /\ deleting = <<>>
    /\ deletedChats = {}

\* the root layout as constructed (layout.tsx line 12), nothing saved
LayoutIdle ==
    /\ theme = "dark"
    /\ savedTheme = "none"
    /\ dataTheme = "none"
    /\ layoutMounted = FALSE

\* the auth page as constructed (auth/page.tsx lines 9-11)
AuthIdle ==
    /\ isLogin = TRUE
    /\ authLoading = FALSE
    /\ authError = ""
    /\ authPc = "idle"

BrowserIdle ==
    /\ location = "/chat"
    /\ token = "tok"
    /\ now = 1
    /\ focus = "body"

\* the parts of the site that take no part in a chat turn, as constructed
SiteIdle ==
    /\ RegistryIdle
    /\ FilesIdle
    /\ BrowserIdle
    /\ PageIdle
    /\ LayoutIdle
    /\ AuthIdle

NoTurn == [saved |-> FALSE, complete |-> FALSE, text |-> "", tools |-> <<>>]

InitCommon ==
    /\ messages \in {<<>>, LoadedMessages}
    /\ loading = FALSE
    /\ cpc = "idle"
    /\ handler = "none"
    /\ assistantMessage = NoMessage
    /\ lines = <<>>
    /\ received = <<>>
    /\ wire = <<>>
    /\ wireClosed = FALSE
    /\ connected = TRUE
    /\ sent = 0
    /\ srvPc = "idle"
    /\ planLen = 0
    /\ required = FALSE
    /\ step = 1
    /\ started = 0
    /\ invocations = <<>>
    /\ emitted = <<>>
    /\ persisted = NoTurn
    /\ SiteIdle

----------------------------------------------------------------------------
\* An arbitrary server: any lines at all may arrive in the body.

Payloads == {"a", "ab"}

AnyLine ==
    {Serialize(Event(ty, c)) : ty \in {"tool", "response", "other"}, c \in Payloads}
    \cup { << Tok("head", "tool"), Tok("tail", "a"), NL >>,            \* no marker
           << Junk, NL >>,                                              \* no marker
           << Marker, Tok("head", "tool"), Tok("tail", "a"), NL >>,    \* "data:" without the space
           << Marker, Space, Tok("head", "response"), NL >>,           \* cut JSON
           << Marker, Space, Junk, NL >> }                             \* not JSON

\* the server answers the request
WireStart ==
    /\ srvPc = "requested"
    /\ srvPc' = "streaming"
    /\ UNCHANGED clientVars
    /\ UNCHANGED wireVars
    /\ UNCHANGED <<planLen, required, step, started, invocations, emitted, persisted>>
    /\ UNCHANGED siteVars

WireLine ==
    /\ srvPc = "streaming"
    /\ sent < MaxLines
    /\ \E l \in AnyLine : wire' = wire \o l
    /\ sent' = sent + 1
    /\ UNCHANGED clientVars
    /\ UNCHANGED <<wireClosed, connected>>
    /\ UNCHANGED serverVars
    /\ UNCHANGED siteVars

WireClose ==
    /\ srvPc = "streaming"
    /\ srvPc' = "closed"
    /\ wireClosed' = TRUE
    /\ UNCHANGED clientVars
    /\ UNCHANGED <<wire, connected, sent>>
    /\ UNCHANGED <<planLen, required, step, started, invocations, emitted, persisted>>
    /\ UNCHANGED siteVars

NextWire == ClientNext \/ WireStart \/ WireLine \/ WireClose

SpecWire == InitCommon /\ [][NextWire]_vars

----------------------------------------------------------------------------
\* The agent pipeline of the design document: Chat Endpoint, Agent Router
\* (4.2) and Streaming Multiplexer (4.3, 5).

IsTool(ev) == ev.type = "tool"
IsResponse(ev) == ev.type = "response"

\* the payloads of the tool events of a sequence of events, in order
ToolPayloads(evs) ==
    LET ts == SelectSeq(evs, IsTool)
    IN  [i \in 1..Len(ts) |-> ts[i].content]

\* the payload of the last response event of a sequence of events, "" if none
LastResponse(evs) ==
    LET rs == SelectSeq(evs, IsResponse)
    IN  IF rs = <<>> THEN "" ELSE rs[Len(rs)].content

\* persist_turn: the events of the turn folded into a Turn (3, 4.3)
Fold(evs, complete) ==
    [saved |-> TRUE, complete |-> complete,
     text |-> LastResponse(evs), tools |-> ToolPayloads(evs)]

\* the outcomes of a tool invocation: a result, a ToolExecutionError, or the
\* timeout variant of it (5)
Outcomes == {"ok", "error", "timeout"}

\* the tool event of a completed invocation: its result, or the note that
\* records its error
ToolNote(outcome) ==
    IF outcome = "ok" THEN "result"
    ELSE IF outcome = "error" THEN "ToolExecutionError"
    ELSE "ToolExecutionError(timeout)"

\* the response text after n increments; each event carries the whole text
RespText(n) == SubSeq(<<"a", "ab", "abc", "abcd", "abcde">>, n, n)[1]

\* the error-acknowledgment text of a terminal failure (4.3, 7)
Apology == "sorry"

\* Mutant of IsTerminal: every tool failure ends the turn.
AnyFailureTerminal(outcome, req) == outcome # "ok"

\* Mutant of IsTerminal: no tool failure ends the turn.
NeverTerminal(outcome, req) == FALSE

\* a tool failure ends the turn when the policy marked the tool as required
\* for the next planned step (4.2 (d))
IsTerminal(outcome, req) == outcome # "ok" /\ req

\* Mutant of MayInvoke: the number of calls is not capped.
MayInvokeUncapped == step <= planLen

\* the router may start one more of the proposed calls (4.2 (a))
MayInvoke == step <= planLen /\ started < MaxToolCalls

\* Mutant of MayProceed: the disconnect is not looked at.
ProceedsDisconnected == TRUE

\* the multiplexer issues work only while the client is connected (5)
MayProceed == connected

\* one StreamEvent handed to the transport
Emit(ev) ==
    /\ wire' = wire \o Serialize(ev)
    /\ emitted' = Append(emitted, ev)
    /\ sent' = sent + 1

\* The endpoint accepts the request and the selection policy proposes the
\* turn's tool calls.
ServerAccept ==
    /\ srvPc = "requested"
    /\ \E n \in 0..MaxPlan : planLen' = n
    /\ srvPc' = "routing"
    /\ UNCHANGED clientVars
    /\ UNCHANGED wireVars
    /\ UNCHANGED <<required, step, started, invocations, emitted, persisted>>
    /\ UNCHANGED siteVars

\* The router starts the next proposed tool call.
InvokeStart ==
    /\ srvPc = "routing"
    /\ MayProceed
    /\ MayInvoke
    /\ \E req \in BOOLEAN : required' = req
    /\ started' = started + 1
    /\ srvPc' = "invoking"
    /\ UNCHANGED clientVars
    /\ UNCHANGED wireVars
    /\ UNCHANGED <<planLen, step, invocations, emitted, persisted>>
    /\ UNCHANGED siteVars

\* The invocation completes, with a result or an error: it is recorded, and
\* yields exactly one tool event.
InvokeComplete ==
    /\ srvPc = "invoking"
    /\ MayProceed
    /\ \E outcome \in Outcomes :
          /\ invocations' = Append(invocations, [result |-> outcome, required |-> required])
          /\ Emit(Event("tool", ToolNote(outcome)))
          /\ srvPc' = IF IsTerminal(outcome, required) THEN "terminal" ELSE "routing"
    /\ step' = step + 1
    /\ UNCHANGED clientVars
    /\ UNCHANGED <<wireClosed, connected>>
    /\ UNCHANGED <<planLen, required, started, persisted>>
    /\ UNCHANGED siteVars

\* The router itself fails before any response text exists.
RouterFail ==
    /\ srvPc = "routing"
    /\ MayProceed
    /\ srvPc' = "terminal"
    /\ UNCHANGED clientVars
    /\ UNCHANGED wireVars
    /\ UNCHANGED <<planLen, required, step, started, invocations, emitted, persisted>>
    /\ UNCHANGED siteVars

\* No call is left to start: the router turns to the final response.
BeginResponse ==
    /\ srvPc = "routing"
    /\ MayProceed
    /\ ~MayInvoke
    /\ srvPc' = "responding"
    /\ UNCHANGED clientVars
    /\ UNCHANGED wireVars
    /\ UNCHANGED <<planLen, required, step, started, invocations, emitted, persisted>>
    /\ UNCHANGED siteVars

\* One more increment of the response text: a response event with the text so far.
EmitResponse ==
    /\ srvPc = "responding"
    /\ MayProceed
    /\ Len(SelectSeq(emitted, IsResponse)) < MaxRespEvents
    /\ Emit(Event("response", RespText(Len(SelectSeq(emitted, IsResponse)) + 1)))
    /\ UNCHANGED clientVars
    /\ UNCHANGED <<wireClosed, connected>>
    /\ UNCHANGED <<srvPc, planLen, required, step, started, invocations, persisted>>
    /\ UNCHANGED siteVars

\* The response is complete: the stream is closed and the turn persisted.
Close ==
    /\ srvPc = "responding"
    /\ MayProceed
    /\ SelectSeq(emitted, IsResponse) # <<>>
    /\ srvPc' = "closed"
    /\ wireClosed' = TRUE
    /\ persisted' = Fold(emitted, TRUE)
    /\ UNCHANGED clientVars
    /\ UNCHANGED <<wire, connected, sent>>
    /\ UNCHANGED <<planLen, required, step, started, invocations, emitted>>
    /\ UNCHANGED siteVars

\* A terminal failure: one response event with the error acknowledgment, and
\* the stream is closed.
EmitTerminal ==
    /\ srvPc = "terminal"
    /\ MayProceed
    /\ Emit(Event("response", Apology))
    /\ srvPc' = "closed"
    /\ wireClosed' = TRUE
    /\ persisted' = Fold(emitted', TRUE)
    /\ UNCHANGED clientVars
    /\ UNCHANGED connected
    /\ UNCHANGED <<planLen, required, step, started, invocations>>
    /\ UNCHANGED siteVars

\* The client has disconnected: the multiplexer stops, drops the call in
\* flight, and persists what was emitted, marked incomplete.
Cancel ==
    /\ ~connected
    /\ srvPc \in {"routing", "invoking", "responding", "terminal"}
    /\ srvPc' = "cancelled"
    /\ persisted' = Fold(emitted, FALSE)
    /\ UNCHANGED clientVars
    /\ UNCHANGED wireVars
    /\ UNCHANGED <<planLen, required, step, started, invocations, emitted>>
    /\ UNCHANGED siteVars

ServerNext ==
    \/ ServerAccept
    \/ InvokeStart
    \/ InvokeComplete
    \/ RouterFail
    \/ BeginResponse
    \/ EmitResponse
    \/ Close
    \/ EmitTerminal
    \/ Cancel

Next == ClientNext \/ ServerNext

Spec == InitCommon /\ [][Next]_vars

----------------------------------------------------------------------------
\* Properties

\* the assistant message of the turn, as the page shows it: the last entry of
\* messages once the handler has appended it
Appended == assistantMessage.role = "assistant"
TurnMessage == IF Appended THEN messages[Len(messages)] ELSE NoMessage

HasResponse(evs) == SelectSeq(evs, IsResponse) # <<>>
HasTool(evs) == SelectSeq(evs, IsTool) # <<>>

RECURSIVE IsSubseq(_, _)
IsSubseq(a, b) ==
    IF a = <<>> THEN TRUE
    ELSE IF b = <<>> THEN FALSE
    ELSE IF Head(a) = Head(b) THEN IsSubseq(Tail(a), Tail(b))
    ELSE IsSubseq(a, Tail(b))

IsPrefix(a, b) == Len(a) <= Len(b) /\ SubSeq(b, 1, Len(a)) = a

\* C1: in every turn the stream holds at least one response event when it
\* closes, and when the read loop of sendMessage/convertToFile ends the
\* assistant message it appended has non-empty content.
C1_EveryTurnRenders ==
    /\ wireClosed => HasResponse(emitted)
    /\ cpc = "done" => TurnMessage.content # ""

\* C2: when the stream closes, the content of the assistant message is the
\* payload of the last response event the read loop received, and the empty
\* string when it received none; a response event replaces the content, so
\* the same event received twice leaves what one leaves.
C2_ContentIsLastResponse ==
    cpc = "done" => TurnMessage.content = LastResponse(received)

\* C2 witness: the stream closed after the same response event was received
\* twice in a row.
C2_Witness ==
    /\ cpc = "done"
    /\ Len(received) = 2
    /\ IsResponse(received[1])
    /\ received[1] = received[2]
    /\ TurnMessage.content = received[1].content

\* C3: events are handled in the order they were produced: at every point of
\* the turn the events received are, in order, among the events produced,
\* toolOutputs is the payloads of the tool events received so far in arrival
\* order, and a step only ever appends to toolOutputs.
C3_ToolOutputsInOrder ==
    /\ [](/\ IsSubseq(received, emitted)
          /\ TurnMessage.toolOutputs = ToolPayloads(received))
    /\ [][IsPrefix(TurnMessage.toolOutputs, TurnMessage.toolOutputs')]_vars

\* C3 witness: two tool events with different payloads were received.
C3_Witness ==
    /\ Len(TurnMessage.toolOutputs) = 2
    /\ TurnMessage.toolOutputs[1] = "ToolExecutionError"
    /\ TurnMessage.toolOutputs[2] = "result"

\* the chunk taken off the wire by a read step
ChunkRead == SubSeq(wire, 1, Len(wire) - Len(wire'))

\* the places of a chunk where a line with the event marker begins
MarkedStarts(chunk) ==
    {i \in 1..Len(chunk) : chunk[i] = Marker /\ (i = 1 \/ chunk[i - 1] = NL)}

\* the line of a chunk that begins at place i: up to the next newline
LineAt(chunk, i) ==
    LET nls == {j \in i..Len(chunk) : chunk[j] = NL}
        e   == IF nls = {} THEN Len(chunk)
               ELSE (CHOOSE j \in nls : \A h \in nls : j <= h) - 1
    IN  SubSeq(chunk, i, e)

\* l is the intact line of an event of type ty: data: {"type":ty,"content":..}
IsEventLine(l, ty) ==
    /\ Len(l) = 4
    /\ l[1] = Marker
    /\ l[2] = Space
    /\ l[3] = Tok("head", ty)
    /\ l[4].k = "tail"

\* a read step keeps exactly the lines of the chunk that start with the
\* marker, in order, and changes nothing of the message
C4_ReadStep ==
    (cpc = "reading" /\ Len(wire') < Len(wire)) =>
        /\ Len(lines') = Cardinality(MarkedStarts(ChunkRead))
        /\ \A i \in MarkedStarts(ChunkRead) :
              lines'[Cardinality({h \in MarkedStarts(ChunkRead) : h <= i})]
                  = LineAt(ChunkRead, i)
        /\ TurnMessage' = TurnMessage

\* a step of the for loop handles the first pending line by its type and goes
\* on to the lines that follow
C4_LineStep ==
    (cpc = "dispatch" /\ lines' # lines) =>
        LET l == Head(lines)
        IN  /\ IsEventLine(l, "tool") =>
                /\ TurnMessage.toolOutputs' = Append(TurnMessage.toolOutputs, l[4].v)
                /\ TurnMessage.content' = TurnMessage.content
            /\ IsEventLine(l, "response") =>
                /\ TurnMessage.content' = l[4].v
                /\ TurnMessage.toolOutputs' = TurnMessage.toolOutputs
            /\ (~IsEventLine(l, "tool") /\ ~IsEventLine(l, "response")) =>
                TurnMessage' = TurnMessage
            /\ lines' = Tail(lines)
            /\ cpc' = IF Tail(lines) = <<>> THEN "reading" ELSE "dispatch"

\* C4: for each chunk read the parser splits on newline and keeps only the
\* lines that start with "data:"; a kept line that decodes to type "tool"
\* appends its content to toolOutputs and leaves content, one of type
\* "response" sets content and leaves toolOutputs, and any other line (no
\* marker, undecodable, unknown type) leaves both and does not stop the lines
\* after it from being handled.
C4_ParserDispatch == [][C4_ReadStep /\ C4_LineStep]_vars

\* C4 witness: both lines the server wrote have been read, the first (which is
\* no intact tool or response event line) had no effect, and the tool event
\* that follows it is the line now pending.
C4_Witness ==
    /\ cpc = "dispatch"
    /\ sent = 2
    /\ wire = <<>>
    /\ received = <<>>
    /\ TurnMessage.content = ""
    /\ TurnMessage.toolOutputs = <<>>
    /\ Len(lines) = 1
    /\ IsEventLine(lines[1], "tool")

\* C5: however the transport splits the stream into read chunks, at the end
\* of the read loop toolOutputs has one entry per tool event the server
\* emitted and the content is the payload of the last response event emitted.
C5_EveryEventSeenOnce ==
    cpc = "done" =>
        /\ Len(TurnMessage.toolOutputs) = Len(ToolPayloads(emitted))
        /\ TurnMessage.content = LastResponse(emitted)

\* C6: a turn for which no tool call is proposed produces no tool event, and a
\* turn whose stream carries no tool event leaves toolOutputs empty, so that
\* no "Show Thinking" section is rendered for its message.
C6_NoToolNoThinking ==
    /\ planLen = 0 => ~HasTool(emitted)
    /\ (Appended /\ ~HasTool(emitted)) =>
          /\ TurnMessage.toolOutputs = <<>>
          /\ ~ShowThinking(TurnMessage)

\* C6 witness: a turn without tool calls was read to its end and shows its
\* response text.
C6_Witness ==
    /\ cpc = "done"
    /\ srvPc = "closed"
    /\ planLen = 0
    /\ HasResponse(received)
    /\ TurnMessage.content = LastResponse(emitted)
    /\ ~ShowThinking(TurnMessage)

\* the last event produced is a response event
EndsWithResponse(evs) == evs # <<>> /\ IsResponse(evs[Len(evs)])

\* invocation i failed
Failed(i) == invocations[i].result # "ok"

\* every completed invocation is recorded with its outcome, and has its one
\* tool event, in start order
InvocationsRecorded ==
    /\ Len(ToolPayloads(emitted)) = Len(invocations)
    /\ \A i \in 1..Len(invocations) :
          ToolPayloads(emitted)[i] = ToolNote(invocations[i].result)

\* a turn that ran to its close
C7_AtClose ==
    srvPc = "closed" =>
        /\ EndsWithResponse(emitted)
        \* a failure of a tool marked as required ended the turn: it is the
        \* last invocation, and the turn ends with the error response
        /\ \A i \in 1..Len(invocations) :
              (Failed(i) /\ invocations[i].required) =>
                  /\ i = Len(invocations)
                  /\ started = i
                  /\ LastResponse(emitted) = Apology
        \* otherwise the failures did not abort anything: every planned call
        \* (up to the maximum of C9) was made
        /\ LastResponse(emitted) # Apology =>
              Len(invocations) = IF planLen < MaxToolCalls THEN planLen ELSE MaxToolCalls

\* the completion of a failed call that is not marked as required leaves the
\* router at the next planned step
C7_FailureStep ==
    (srvPc = "invoking" /\ Len(invocations') = Len(invocations) + 1) =>
        LET inv == invocations'[Len(invocations')]
        IN  /\ inv.required = required
            /\ (inv.result # "ok" /\ ~inv.required) =>
                  (srvPc' = "routing" /\ step' = step + 1)
            /\ (inv.result # "ok" /\ inv.required) => srvPc' = "terminal"

\* C7: a failed tool invocation is recorded as a ToolExecutionError in its
\* ToolInvocation; the remaining planned steps are still executed unless the
\* policy marked the failed tool as required for the next planned step, in
\* which case the turn ends with an error response; the failure never leaves
\* the stream without its closing response.
C7_ToolFailureHandled ==
    /\ [](InvocationsRecorded /\ C7_AtClose)
    /\ [][C7_FailureStep]_vars

\* C7 witness: the first of two planned calls failed, the second was made all
\* the same, and the turn closed with its response.
C7_Witness ==
    /\ srvPc = "closed"
    /\ Len(invocations) = 2
    /\ invocations[1].result = "error"
    /\ ~invocations[1].required
    /\ invocations[2].result = "ok"
    /\ LastResponse(emitted) # Apology

\* invocation i ran into its timeout
TimedOut(i) == invocations[i].result = "timeout"

\* the timeout of invocation i is recorded in the stream, and a stream that
\* closed ends with a response event after it
TimeoutShown(i) ==
    /\ ToolPayloads(emitted)[i] = ToolNote("timeout")
    /\ srvPc = "closed" => EndsWithResponse(emitted)

C9_CallsBounded ==
    /\ started <= MaxToolCalls
    /\ srvPc = "closed" => EndsWithResponse(emitted)

\* C9 witness: more calls were proposed than the maximum, the maximum was
\* reached, and the turn closed with its response.
C9_Witness ==
    /\ planLen > MaxToolCalls
    /\ started = MaxToolCalls
    /\ srvPc = "closed"
    /\ HasResponse(emitted)

\* once the client is disconnected no invocation is started and nothing more
\* is emitted; what was flushed, and what the page shows, stays
C10_AfterDisconnect ==
    /\ ~connected =>
          /\ started' = started
          /\ emitted' = emitted
          /\ wire' = wire
    /\ (connected /\ ~connected') => messages' = messages

\* the cancelled turn is persisted with what was emitted, marked incomplete
C10_Persisted ==
    srvPc = "cancelled" =>
        /\ persisted.saved
        /\ ~persisted.complete
        /\ persisted.text = LastResponse(emitted)
        /\ persisted.tools = ToolPayloads(emitted)

\* C10: if the client disconnects mid-stream, no tool invocation is started
\* after the disconnect, response text already flushed is not retracted, and
\* the turn is persisted with exactly what was emitted up to the
\* cancellation, marked incomplete.
C10_Cancellation ==
    /\ []C10_Persisted
    /\ [][C10_AfterDisconnect]_vars

\* C10 witness: the client left after a tool event and a first increment of
\* the response, with planned calls still to make; the turn is stored
\* incomplete with both.
C10_Witness ==
    /\ srvPc = "cancelled"
    /\ ~connected
    /\ persisted.saved
    /\ ~persisted.complete
    /\ persisted.text = RespText(1)
    /\ Len(persisted.tools) = 1

----------------------------------------------------------------------------
\* The Tool Registry of the design document (4.1): an explicit registry object
\* built once at process start.

ToolNames == {"web_search", "read_pdf", "text_to_speech"}
Schemas == {"query", "path"}

\* A ToolSpec: the name and the declared input schema (the invoke capability
\* is determined by the two).
ToolSpecs == [name : ToolNames, input_schema : Schemas]

\* a lookup that finds nothing
HasNever(reg, name) == FALSE

\* a tool of that name is present
Has(reg, name) == \E i \in DOMAIN reg : reg[i].name = name

\* the entry registered under a name
Lookup(reg, name) == reg[CHOOSE i \in DOMAIN reg : reg[i].name = name]

\* register(spec): DuplicateToolError if the name is present, and startup is
\* aborted (section 7: fatal to startup); otherwise the spec is added.
Register ==
    /\ regPhase = "startup"
    /\ \E spec \in ToolSpecs :
          IF Has(registry, spec.name)
          THEN /\ regResult' = [op |-> "register", status |-> "DuplicateToolError",
                                arg |-> spec, spec |-> ""]
               /\ regPhase' = "failed"
               /\ UNCHANGED registry
          ELSE /\ registry' = Append(registry, spec)
               /\ regResult' = [op |-> "register", status |-> "ok",
                                arg |-> spec, spec |-> ""]
               /\ UNCHANGED regPhase
    /\ UNCHANGED <<clientVars, wireVars, serverVars>>
    /\ UNCHANGED <<browserVars, pageVars, layoutVars, authVars, fileVars>>

\* Process start is over: the registry is read-only from here on.
StartServing ==
    /\ regPhase = "startup"
    /\ regPhase' = "serving"
    /\ UNCHANGED <<registry, regResult>>
    /\ UNCHANGED <<clientVars, wireVars, serverVars>>
    /\ UNCHANGED <<browserVars, pageVars, layoutVars, authVars, fileVars>>

\* resolve(name): the ToolSpec of that name, UnknownToolError if absent.
Resolve ==
    /\ regPhase = "serving"
    /\ \E name \in ToolNames :
          regResult' = IF Has(registry, name)
                       THEN [op |-> "resolve", status |-> "ok",
                             arg |-> name, spec |-> Lookup(registry, name)]
                       ELSE [op |-> "resolve", status |-> "UnknownToolError",
                             arg |-> name, spec |-> ""]
    /\ UNCHANGED <<registry, regPhase>>
    /\ UNCHANGED <<clientVars, wireVars, serverVars>>
    /\ UNCHANGED <<browserVars, pageVars, layoutVars, authVars, fileVars>>

NextRegistry == Register \/ StartServing \/ Resolve

SpecRegistry == InitCommon /\ [][NextRegistry]_vars

\* ---- C11 ----

C11_NamesUnique ==
    \A i, j \in DOMAIN registry : registry[i].name = registry[j].name => i = j

\* what a call that has just returned must have done
C11_CallStep ==
    LET r == regResult'
        present(name) == \E i \in DOMAIN registry : registry[i].name = name
    IN  (regResult' # regResult \/ registry' # registry) =>
          /\ r.op = "register" =>
                IF present(r.arg.name)
                THEN r.status = "DuplicateToolError" /\ registry' = registry
                ELSE r.status = "ok" /\ registry' = Append(registry, r.arg)
          /\ r.op = "resolve" =>
                /\ registry' = registry
                /\ IF present(r.arg)
                   THEN /\ r.status = "ok"
                        /\ r.spec.name = r.arg
                        /\ \E i \in DOMAIN registry : registry[i] = r.spec
                   ELSE r.status = "UnknownToolError"

\* C11: register(spec) fails with DuplicateToolError when a tool of that name
\* is already registered and leaves the registry unchanged, so the names in the
\* registry are pairwise different after any sequence of registrations;
\* resolve(name) returns the ToolSpec registered under that name and fails with
\* UnknownToolError when no tool of that name is registered.
C11_RegistryContract == []C11_NamesUnique /\ [][C11_CallStep]_vars

\* a registration was refused with two tools already registered
C11_Witness ==
    /\ regResult.op = "register"
    /\ regResult.status = "DuplicateToolError"
    /\ Len(registry) = 2
    /\ \E i \in DOMAIN registry :
          registry[i].name = regResult.arg.name /\ registry[i] # regResult.arg

----------------------------------------------------------------------------
\* The chat page as a whole (frontend/app/chat/page.tsx): its sendMessage and
\* convertToFile calls, each with its own stream, its key handlers and the
\* values its handlers see.  Every action is one event handler, or the part of
\* an async handler between two awaits; the render that follows it replaces
\* the handlers of the elements, and replaces the document's keydown listener
\* only when currentChatId or input changed (effect dependencies, line 120).

\* at most MaxCalls calls of sendMessage / convertToFile are made
MaxCalls == 2
\* Date.now() returns values from 1 to MaxTime
MaxTime == 2
\* a stream delivers at most MaxStreamEvents events
MaxStreamEvents == 1
\* at most MaxFiles files are attached
MaxFiles == 1
\* the server creates at most MaxNewChats chats
MaxNewChats == 1

\* the frame of every action of the pages: the single-turn variables, the
\* transport, the backend
offPage == <<cpc, handler, assistantMessage, lines, received, wireVars, serverVars,
             registryVars, fileVars>>

OnPage == location = "/chat" /\ mounted

\* the texts typed into the message input; " " is blank but not empty
Texts == {"", " ", "q"}

\* String.prototype.trim
Trim(s) == IF s = " " THEN "" ELSE s

\* the state values the handlers of the next render will see
ClosureNext ==
    [chats |-> chats', messages |-> messages', input |-> input',
     uploadedFiles |-> uploadedFiles', currentChatId |-> currentChatId']

\* the keydown effect (lines 84-120) runs again only after a render in which
\* one of its dependencies [currentChatId, input] changed
KeyListener ==
    kb' = IF currentChatId' # currentChatId \/ input' # input THEN ClosureNext ELSE kb

\* line 306: sendMessage returns at once unless there is text or a file
MaySend(cl) == ~(Trim(cl.input) = "" /\ cl.uploadedFiles = 0)

\* A call of sendMessage / convertToFile: the values it sees as long as it
\* uses them (cl), the chat it posts to, its userMessage (um, sendMessage
\* only), its local assistantMessage (am), the place in `messages` where that
\* message was appended (pos), the number of events it has read (got).
Call(kind, pc, chat, cl) ==
    [kind |-> kind, pc |-> pc, chat |-> chat, cl |-> cl,
     um |-> NoMessage, am |-> NoMessage, pos |-> 0, got |-> 0]

\* what the state setters called so far in the running event leave for the
\* next render
Pending == [messages |-> messages, input |-> input, loading |-> loading, calls |-> calls]

\* sendMessage() called at time t with the values cl in scope (lines 305-343): without a
\* current chat it first awaits POST /api/chat/new; otherwise it sets the user
\* message, clears the input, sets loading and issues the POST.
SendMessageFrom(st, cl, t) ==
    IF ~MaySend(cl)
    THEN st
    ELSE IF cl.currentChatId = 0
    THEN [st EXCEPT !.calls = Append(@, Call("send", "creating", 0, cl))]
    ELSE LET userMessage == Msg(t, "user", cl.input, <<>>)
         IN  [st EXCEPT !.messages = Append(cl.messages, userMessage),
                        !.input = "",
                        !.loading = TRUE,
                        !.calls = Append(@, [Call("send", "posting", cl.currentChatId, FirstRender)
                                                EXCEPT !.um = userMessage])]

\* the POSTs to a message endpoint issued so far
Posted(c) == c.pc \in {"posting", "reading", "done", "failed"}
Posts(cs) == Len(SelectSeq(cs, Posted))

\* the streams in flight
InFlight(c) == c.pc \in {"posting", "reading"}

\* Date.now() + 1 in sendMessage (line 361), Date.now() in convertToFile (line 483)
AssistantIdAt(kind, t) == IF kind = "send" THEN t + 1 ELSE t

\* the answers of GET /api/chat/list: 0 stands for a fetch that rejects
ListStatuses == {0, 200, 401, 500}
Ok(status) == status \in 200..299

\* a status that is never taken for a 401
NeverUnauthorized(status) == FALSE

\* res.status === 401 (line 226)
Unauthorized(status) == status = 401

\* fetchChats up to its await (lines 217-222)
FetchChats ==
    /\ isInitialLoading' = TRUE
    /\ listPending' = listPending + 1

\* what no handler of the chat page touches
notChatPage == <<offPage, layoutVars, authVars>>

\* the events a message stream may carry
StreamEvents == {Event("tool", "a"), Event("response", "ab")}

\* a click into the message input (it is disabled while loading, line 755, and
\* covered while a modal is open)
FocusMessage ==
    /\ OnPage
    /\ ~loading
    /\ ~(showUpload \/ showSearch \/ showShortcuts)
    /\ focus' = "message"
    /\ UNCHANGED <<messages, loading, location, token, now>>
    /\ UNCHANGED pageVars
    /\ UNCHANGED notChatPage

\* typing in the message input (onChange, line 748)
TypeInput ==
    /\ OnPage
    /\ focus = "message"
    /\ ~loading
    /\ \E v \in Texts \ {input} : input' = v
    /\ UNCHANGED <<messages, loading>>
    /\ UNCHANGED browserVars
    /\ UNCHANGED <<mounted, chats, currentChatId, uploadedFiles, showUpload, showSearch,
                   showShortcuts, error, isInitialLoading, listPending, creating, opening,
                   calls, serverChats, deleting, deletedChats>>
    /\ UNCHANGED notChatPage
    /\ KeyListener

\* the search button (lines 541-547); the modal's input has autoFocus (line 786)
ClickSearch ==
    /\ OnPage
    /\ ~(showUpload \/ showSearch \/ showShortcuts)
    /\ showSearch' = TRUE
    /\ focus' = "search"
    /\ UNCHANGED <<messages, loading, location, token, now>>
    /\ UNCHANGED <<mounted, chats, currentChatId, input, uploadedFiles, showUpload,
                   showShortcuts, error, isInitialLoading, kb, listPending, creating,
                   opening, calls, serverChats, deleting, deletedChats>>
    /\ UNCHANGED notChatPage

\* the upload button (line 738)
OpenUpload ==
    /\ OnPage
    /\ ~(showUpload \/ showSearch \/ showShortcuts)
    /\ showUpload' = TRUE
    /\ focus' = "body"
    /\ UNCHANGED <<messages, loading, location, token, now>>
    /\ UNCHANGED <<mounted, chats, currentChatId, input, uploadedFiles, showSearch,
                   showShortcuts, error, isInitialLoading, kb, listPending, creating,
                   opening, calls, serverChats, deleting, deletedChats>>
    /\ UNCHANGED notChatPage

\* handleFileUpload (lines 405-447) with the server's OK answer: the file is
\* added and the modal closed.  (The upload is answered before anything else
\* happens on the page.)
FileUploaded ==
    /\ OnPage
    /\ showUpload
    /\ uploadedFiles < MaxFiles
    /\ uploadedFiles' = uploadedFiles + 1
    /\ showUpload' = FALSE
    /\ UNCHANGED <<messages, loading>>
    /\ UNCHANGED browserVars
    /\ UNCHANGED <<mounted, chats, currentChatId, input, showSearch, showShortcuts, error,
                   isInitialLoading, kb, listPending, creating, opening, calls, serverChats, deleting,
                   deletedChats>>
    /\ UNCHANGED notChatPage

\* The Enter key, with or without Ctrl and Shift, in the message input or in
\* the search modal's input.  In the message input its onKeyDown (lines
\* 749-754) calls sendMessage unless Shift is held; the event then reaches the
\* document's listener (lines 85-96), which calls the sendMessage it was
\* registered with when Ctrl is held and the target is an input.
EnterPressed(ctrl, shift) ==
    /\ OnPage
    /\ focus \in {"message", "search"}
    /\ focus = "message" => ~loading
    /\ \E t \in now..MaxTime :
          LET st1 == IF focus = "message" /\ ~shift
                     THEN SendMessageFrom(Pending, Closure, t)
                     ELSE Pending
              st2 == IF ctrl THEN SendMessageFrom(st1, kb, t) ELSE st1
          IN  /\ Len(st2.calls) <= MaxCalls
              /\ messages' = st2.messages
              /\ input' = st2.input
              /\ loading' = st2.loading
              /\ calls' = st2.calls
              /\ now' = IF st2.messages # messages THEN t ELSE now
    /\ UNCHANGED <<location, token, focus>>
    /\ UNCHANGED <<mounted, chats, currentChatId, uploadedFiles, showUpload, showSearch,
                   showShortcuts, error, isInitialLoading, listPending, creating, opening,
                   serverChats, deleting, deletedChats>>
    /\ UNCHANGED notChatPage
    /\ KeyListener

KeyEnter == \E ctrl, shift \in BOOLEAN : EnterPressed(ctrl, shift)

\* the send button (lines 756-763)
ClickSend ==
    /\ OnPage
    /\ ~loading
    /\ MaySend(Closure)
    /\ ~(showUpload \/ showSearch \/ showShortcuts)
    /\ Len(calls) < MaxCalls
    /\ \E t \in now..MaxTime :
          LET st == SendMessageFrom(Pending, Closure, t)
          IN  /\ messages' = st.messages
              /\ input' = st.input
              /\ loading' = st.loading
              /\ calls' = st.calls
              /\ now' = IF st.messages # messages THEN t ELSE now
    /\ focus' = "body"
    /\ UNCHANGED <<location, token>>
    /\ UNCHANGED <<mounted, chats, currentChatId, uploadedFiles, showUpload, showSearch,
                   showShortcuts, error, isInitialLoading, listPending, creating, opening,
                   serverChats, deleting, deletedChats>>
    /\ UNCHANGED notChatPage
    /\ KeyListener

\* a Word/PDF/PPT/Voice button of a message (lines 691-705, disabled while
\* loading): convertToFile up to its fetch (lines 456-478)
ClickConvert ==
    /\ OnPage
    /\ ~loading
    /\ ~(showUpload \/ showSearch \/ showShortcuts)
    /\ \E i \in DOMAIN messages : ConvertOffered(messages[i])
    /\ currentChatId # 0
    /\ Len(calls) < MaxCalls
    /\ loading' = TRUE
    /\ calls' = Append(calls, Call("convert", "posting", currentChatId, FirstRender))
    /\ focus' = "body"
    /\ UNCHANGED <<messages, location, token, now>>
    /\ UNCHANGED <<mounted, chats, currentChatId, input, uploadedFiles, showUpload, showSearch,
                   showShortcuts, error, isInitialLoading, kb, listPending, creating, opening,
                   serverChats, deleting, deletedChats>>
    /\ UNCHANGED notChatPage

\* sendMessage after `await fetch(.../api/chat/new)` (lines 309-343): with an
\* OK answer the chat is listed and made current, then the user message is
\* set from the `messages` the call sees, the input cleared, loading set and
\* the POST issued; otherwise the call returns.
SendChatAnswer ==
    /\ OnPage
    /\ \E i \in DOMAIN calls :
          /\ calls[i].pc = "creating"
          /\ \/ /\ NewChatId <= Len(ExistingChats) + MaxNewChats
                /\ \E t \in now..MaxTime :
                      LET chat == NewChatId
                          cl == calls[i].cl
                          userMessage == Msg(t, "user", cl.input, <<>>)
                      IN  /\ serverChats' = <<chat>> \o serverChats
                          /\ chats' = <<chat>> \o chats
                          /\ currentChatId' = chat
                          /\ messages' = Append(cl.messages, userMessage)
                          /\ input' = ""
                          /\ loading' = TRUE
                          /\ calls' = [calls EXCEPT ![i].pc = "posting", ![i].chat = chat,
                                                    ![i].cl = FirstRender,
                                                    ![i].um = userMessage]
                          /\ now' = t
             \/ /\ calls' = [calls EXCEPT ![i].pc = "returned", ![i].cl = FirstRender]
                /\ UNCHANGED <<serverChats, chats, currentChatId, messages, input, loading, now>>
    /\ UNCHANGED <<location, token, focus>>
    /\ UNCHANGED <<mounted, uploadedFiles, showUpload, showSearch, showShortcuts, error,
                   isInitialLoading, listPending, creating, opening, deleting, deletedChats>>
    /\ UNCHANGED notChatPage
    /\ KeyListener

\* `await fetch(.../message)` resolves (lines 345-367, 471-489): the call's
\* assistant message gets its id from Date.now() and is appended.
PostAnswered ==
    /\ OnPage
    /\ \E i \in DOMAIN calls :
          /\ calls[i].pc = "posting"
          /\ \E t \in now..MaxTime :
                LET am == Msg(AssistantIdAt(calls[i].kind, t), "assistant", "", <<>>)
                IN  /\ messages' = Append(messages, am)
                    /\ calls' = [calls EXCEPT ![i].pc = "reading", ![i].am = am,
                                              ![i].pos = Len(messages) + 1]
                    /\ now' = t
    /\ UNCHANGED loading
    /\ UNCHANGED <<location, token, focus>>
    /\ UNCHANGED <<mounted, chats, currentChatId, input, uploadedFiles, showUpload, showSearch,
                   showShortcuts, error, isInitialLoading, kb, listPending, creating, opening,
                   serverChats, deleting, deletedChats>>
    /\ UNCHANGED notChatPage

\* A read that delivers one event line, and the loop body for it (lines
\* 369-391, 491-513): the call's assistantMessage is updated and every message
\* with its id is replaced by a copy.
StreamEvent ==
    /\ OnPage
    /\ \E i \in DOMAIN calls : \E ev \in StreamEvents :
          /\ calls[i].pc = "reading"
          /\ calls[i].got < MaxStreamEvents
          /\ LET am == Dispatch(calls[i].am, ev)
             IN  /\ messages' = ReplaceById(messages, am)
                 /\ calls' = [calls EXCEPT ![i].am = am, ![i].got = @ + 1]
    /\ UNCHANGED loading
    /\ UNCHANGED browserVars
    /\ UNCHANGED <<mounted, chats, currentChatId, input, uploadedFiles, showUpload, showSearch,
                   showShortcuts, error, isInitialLoading, kb, listPending, creating, opening,
                   serverChats, deleting, deletedChats>>
    /\ UNCHANGED notChatPage

\* reader.read() returns done (lines 371, 394-400; 493, 517-519): sendMessage
\* clears the attached files and calls fetchChats; both set loading false.
StreamEnd ==
    /\ OnPage
    /\ \E i \in DOMAIN calls :
          /\ calls[i].pc = "reading"
          /\ calls' = [calls EXCEPT ![i].pc = "done"]
          /\ IF calls[i].kind = "send"
             THEN uploadedFiles' = 0 /\ FetchChats
             ELSE UNCHANGED <<uploadedFiles, isInitialLoading, listPending>>
    /\ loading' = FALSE
    /\ UNCHANGED messages
    /\ UNCHANGED browserVars
    /\ UNCHANGED <<mounted, chats, currentChatId, input, showUpload, showSearch,
                   showShortcuts, error, kb, creating, opening, serverChats, deleting,
                   deletedChats>>
    /\ UNCHANGED notChatPage

\* fetch or reader.read() rejects: catch, then finally setLoading(false)
\* (lines 396-400, 515-519)
CallFailed ==
    /\ OnPage
    /\ \E i \in DOMAIN calls :
          /\ calls[i].pc \in {"posting", "reading"}
          /\ calls' = [calls EXCEPT ![i].pc = "failed"]
    /\ loading' = FALSE
    /\ UNCHANGED messages
    /\ UNCHANGED browserVars
    /\ UNCHANGED <<mounted, chats, currentChatId, input, uploadedFiles, showUpload, showSearch,
                   showShortcuts, error, isInitialLoading, kb, listPending, creating, opening,
                   serverChats, deleting, deletedChats>>
    /\ UNCHANGED notChatPage

\* fetchChats after its await, answered with status (lines 223-235)
ListAnswered(status) ==
    /\ OnPage
    /\ listPending > 0
    /\ chats' = IF Ok(status) THEN serverChats ELSE chats
    /\ token' = IF Unauthorized(status) THEN "none" ELSE token
    /\ location' = IF Unauthorized(status) THEN "/auth" ELSE location
    /\ error' = IF status = 0 THEN "Failed to load chats" ELSE error
    /\ isInitialLoading' = FALSE
    /\ listPending' = listPending - 1
    /\ UNCHANGED <<messages, loading, now, focus>>
    /\ UNCHANGED <<mounted, currentChatId, input, uploadedFiles, showUpload, showSearch,
                   showShortcuts, kb, creating, opening, calls, serverChats, deleting,
                   deletedChats>>
    /\ UNCHANGED notChatPage

ChatListAnswer == \E status \in ListStatuses : ListAnswered(status)

\* the single-turn handler, the transport and the backend are not running
TurnIdle ==
    /\ loading = FALSE
    /\ cpc = "idle"
    /\ handler = "none"
    /\ assistantMessage = NoMessage
    /\ lines = <<>>
    /\ received = <<>>
    /\ wire = <<>>
    /\ wireClosed = FALSE
    /\ connected = TRUE
    /\ sent = 0
    /\ srvPc = "idle"
    /\ planLen = 0
    /\ required = FALSE
    /\ step = 1
    /\ started = 0
    /\ invocations = <<>>
    /\ emitted = <<>>
    /\ persisted = NoTurn

\* The chat page of a signed-in user after its chat list has arrived, with no
\* chat opened yet, or with the stored chat opened and loaded: the keydown
\* listener is then the one of the render that followed setCurrentChatId
\* (line 263), made before the chat's messages arrived.
InitSend ==
    /\ TurnIdle
    /\ RegistryIdle
    /\ FilesIdle
    /\ LayoutIdle
    /\ AuthIdle
    /\ BrowserIdle
    /\ mounted = TRUE
    /\ chats = ExistingChats
    /\ serverChats = ExistingChats
    /\ deleting = <<>>
    /\ deletedChats = {}
    /\ currentChatId \in {0, 1}
    /\ messages = IF currentChatId = 0 THEN <<>> ELSE LoadedMessages
    /\ kb = IF currentChatId = 0
            THEN FirstRender
            ELSE [FirstRender EXCEPT !.chats = ExistingChats, !.currentChatId = 1]
    /\ input = ""
    /\ uploadedFiles = 0
    /\ showUpload = FALSE
    /\ showSearch = FALSE
    /\ showShortcuts = FALSE
    /\ error = ""
    /\ isInitialLoading = FALSE
    /\ listPending = 0
    /\ creating = <<>>
    /\ opening = <<>>
    /\ calls = <<>>

\* The steps of the page while messages are sent; the chat-list requests that
\* sendMessage starts at its end stay unanswered.
NextSend ==
    \/ FocusMessage
    \/ TypeInput
    \/ ClickSearch
    \/ OpenUpload
    \/ FileUploaded
    \/ KeyEnter
    \/ ClickSend
    \/ ClickConvert
    \/ SendChatAnswer
    \/ PostAnswered
    \/ StreamEvent
    \/ StreamEnd
    \/ CallFailed

SpecSend == InitSend /\ [][NextSend]_vars

\* ---- C12 ----

\* the assistant message of call i is shown at the place where it was appended
ShownAt(i, p) ==
    /\ p = calls[i].pos
    /\ p \in DOMAIN messages
    /\ messages[p].role = "assistant"
    /\ messages[p].id = calls[i].am.id
    /\ \A j \in DOMAIN calls : (j # i /\ calls[j].pc = "reading") => calls[j].pos # p

\* C12: a turn is mutable only while its stream is active: once the read loop
\* of a sendMessage / convertToFile call has seen the end of its stream, no
\* step of the page changes the content or the toolOutputs of that call's
\* assistant message as long as the message is listed; in particular the
\* updates of a later call, matched by message id, never hit it.
C12_TurnImmutable ==
    [][\A i \in DOMAIN calls : \A p \in DOMAIN messages :
          ( /\ calls[i].pc = "done"
            /\ ShownAt(i, p)
            /\ p \in DOMAIN messages'
            /\ messages'[p].id = messages[p].id
            /\ messages'[p].role = "assistant" )
          => /\ messages'[p].content = messages[p].content
             /\ messages'[p].toolOutputs = messages[p].toolOutputs]_vars

----------------------------------------------------------------------------
\* The landing page, the auth page (frontend/app/auth/page.tsx) and the root
\* layout's theme toggle (frontend/app/layout.tsx).

\* what no handler of the layout or the auth page touches
notSite == <<messages, loading, offPage, pageVars, now, focus>>

\* The answers POST /api/auth/login or /signup can get.  Status 0 stands for a
\* fetch that rejects, with the browser's message as body.  An OK answer
\* carries the JSON body with access_token; an error answer carries JSON with
\* a detail text, with a list of validation errors as detail, without detail,
\* or a body that is not JSON.
AuthAnswers ==
    { [status |-> 0,   body |-> "Failed to fetch"],
      [status |-> 0,   body |-> "NetworkError when attempting to fetch resource."],
      [status |-> 200, body |-> "token"],
      [status |-> 401, body |-> "detail"],
      [status |-> 422, body |-> "detailList"],
      [status |-> 404, body |-> "noDetail"],
      [status |-> 500, body |-> "notJSON"] }

\* data.detail || "Authentication failed" given to new Error (line 46)
DetailOrDefault(body) ==
    CASE body = "detail"     -> "Incorrect email or password"
      [] body = "detailList" -> "[object Object]"
      [] OTHER               -> "Authentication failed"

\* a try block that never throws
ThrowsNothing(ans) == "none"

\* The message of what the try block throws for an answer (lines 31-46), or
\* "none": fetch rejects, response.json() rejects on a body that is not JSON,
\* and a status that is not OK throws the detail.
Thrown(ans) ==
    IF ans.status = 0 THEN ans.body
    ELSE IF ans.body = "notJSON" THEN "Unexpected token I in JSON at position 0"
    ELSE IF ~Ok(ans.status) THEN DetailOrDefault(ans.body)
    ELSE "none"

\* the catch block's errorMessage for an Error with that message (lines 53-62)
ErrorMessage(message) ==
    IF message = "Failed to fetch"
    THEN "Cannot connect to server. Make sure backend is running."
    ELSE message

\* "Get Started" on the landing page (frontend/app/page.tsx)
GetStarted ==
    /\ location = "/"
    /\ location' = "/auth"
    /\ UNCHANGED token
    /\ UNCHANGED authVars
    /\ UNCHANGED layoutVars
    /\ UNCHANGED notSite

\* the Login / Sign Up toggle
ToggleMode ==
    /\ location = "/auth"
    /\ isLogin' = ~isLogin
    /\ UNCHANGED <<authLoading, authError, authPc>>
    /\ UNCHANGED <<location, token>>
    /\ UNCHANGED layoutVars
    /\ UNCHANGED notSite

\* typing in a field of the form: handleChange clears the error (lines 19-22)
HandleChange ==
    /\ location = "/auth"
    /\ authError' = ""
    /\ UNCHANGED <<isLogin, authLoading, authPc>>
    /\ UNCHANGED <<location, token>>
    /\ UNCHANGED layoutVars
    /\ UNCHANGED notSite

\* handleSubmit up to its await (lines 26-41); the submit button is disabled
\* while loading
HandleSubmit ==
    /\ location = "/auth"
    /\ ~authLoading
    /\ authLoading' = TRUE
    /\ authError' = ""
    /\ authPc' = "waiting"
    /\ UNCHANGED isLogin
    /\ UNCHANGED <<location, token>>
    /\ UNCHANGED layoutVars
    /\ UNCHANGED notSite

\* handleSubmit after its await, for the answer ans (lines 43-66)
Answered(ans) ==
    /\ authPc = "waiting"
    /\ IF Thrown(ans) = "none"
       THEN /\ token' = "tok"
            /\ location' = "/chat"
            /\ UNCHANGED authError
       ELSE /\ authError' = ErrorMessage(Thrown(ans))
            /\ UNCHANGED <<token, location>>
    /\ authLoading' = FALSE
    /\ authPc' = "idle"
    /\ UNCHANGED isLogin
    /\ UNCHANGED layoutVars
    /\ UNCHANGED notSite

AuthAnswer == \E ans \in AuthAnswers : Answered(ans)

\* the layout's mount effect (layout.tsx lines 14-19)
LayoutMount ==
    /\ ~layoutMounted
    /\ LET saved == IF savedTheme = "none" THEN "dark" ELSE savedTheme
       IN  /\ theme' = saved
           /\ dataTheme' = saved
    /\ layoutMounted' = TRUE
    /\ UNCHANGED savedTheme
    /\ UNCHANGED <<location, token>>
    /\ UNCHANGED authVars
    /\ UNCHANGED notSite

\* a toggle that keeps the theme
Same(t) == t

\* the other theme
Other(t) == IF t = "dark" THEN "light" ELSE "dark"

\* toggleTheme (layout.tsx lines 21-26)
ToggleTheme ==
    /\ layoutMounted
    /\ theme' = Other(theme)
    /\ savedTheme' = theme'
    /\ dataTheme' = theme'
    /\ UNCHANGED layoutMounted
    /\ UNCHANGED <<location, token>>
    /\ UNCHANGED authVars
    /\ UNCHANGED notSite

\* The site opened on its landing page by a visitor who is not signed in; the
\* 'theme' item is absent or was written by an earlier toggle.
InitSite ==
    /\ messages = <<>>
    /\ TurnIdle
    /\ RegistryIdle
    /\ FilesIdle
    /\ PageIdle
    /\ AuthIdle
    /\ location = "/"
    /\ token = "none"
    /\ now = 1
    /\ focus = "body"
    /\ theme = "dark"
    /\ savedTheme \in {"none", "dark", "light"}
    /\ dataTheme = "none"
    /\ layoutMounted = FALSE

NextSite ==
    \/ GetStarted
    \/ ToggleMode
    \/ HandleChange
    \/ HandleSubmit
    \/ AuthAnswer
    \/ LayoutMount
    \/ ToggleTheme

SpecSite == InitSite /\ [][NextSite]_vars

\* ---- C13 ----

\* what handleSubmit has done when the answer ans has been handled
C13_SubmitStep ==
    \A ans \in AuthAnswers :
       Answered(ans) =>
          /\ Ok(ans.status) <=> (token' = "tok" /\ location' = "/chat")
          /\ ~Ok(ans.status) =>
                /\ token' = "none"
                /\ location' = "/auth"
                /\ authError' # ""
          /\ authLoading' = FALSE

----------------------------------------------------------------------------
\* The chat page's session, sidebar, modals and keyboard shortcuts.

\* at most MaxOpening loadChat calls await their answer
MaxOpening == 1

\* the focused element is a text input (handleKeyDown line 87)
InTextInput == focus \in {"message", "search"}

AnyModal == showUpload \/ showSearch \/ showShortcuts

\* a sequence without its i-th element
Without(s, i) == SubSeq(s, 1, i - 1) \o SubSeq(s, i + 1, Len(s))

\* the messages the server stored for a chat before the page was opened
StoredMessages(c) == IF \E i \in DOMAIN ExistingChats : ExistingChats[i] = c
                     THEN LoadedMessages
                     ELSE <<>>

\* The database ids of the two messages stored for the turn of the k-th call:
\* they lie below the ids stored earlier, and so differ from every value of
\* Date.now().
PersistedId(k, role) == IF role = "user" THEN 1 - 2 * k ELSE 0 - 2 * k

\* the text convertToFile posts (lines 460-465)
ConvertPrompt == "convert"

\* The turn the Conversation Store holds for the k-th call once its stream has
\* ended (design document 4.3, 6): the posted content and the folded answer.
TurnOf(k) ==
    << Msg(PersistedId(k, "user"), "user",
           IF calls[k].kind = "send" THEN calls[k].um.content ELSE ConvertPrompt, <<>>),
       Msg(PersistedId(k, "assistant"), "assistant", calls[k].am.content,
           calls[k].am.toolOutputs) >>

\* the stored turns of the first k calls that belong to chat c
RECURSIVE PersistedTurns(_, _)
PersistedTurns(c, k) ==
    IF k = 0
    THEN <<>>
    ELSE PersistedTurns(c, k - 1)
         \o (IF calls[k].chat = c /\ calls[k].pc = "done" THEN TurnOf(k) ELSE <<>>)

\* data.messages of GET /api/chat/{c} (line 269)
ServerMessages(c) == StoredMessages(c) \o PersistedTurns(c, Len(calls))

\* The page's mount effects: the keydown listener of the first render is
\* registered (lines 84-120); the auth check pushes /auth without a token and
\* calls fetchChats with one (lines 201-209).
Mount ==
    /\ location = "/chat"
    /\ ~mounted
    /\ mounted' = TRUE
    /\ kb' = Closure
    /\ IF token = "none"
       THEN /\ location' = "/auth"
            /\ UNCHANGED <<isInitialLoading, listPending>>
       ELSE /\ FetchChats
            /\ UNCHANGED location
    /\ UNCHANGED <<messages, loading, token, now, focus>>
    /\ UNCHANGED <<chats, currentChatId, input, uploadedFiles, showUpload, showSearch,
                   showShortcuts, error, creating, opening, calls, serverChats, deleting,
                   deletedChats>>
    /\ UNCHANGED notChatPage

\* handleLogout (lines 450-453)
HandleLogout ==
    /\ OnPage
    /\ ~AnyModal
    /\ token' = "none"
    /\ location' = "/"
    /\ UNCHANGED <<messages, loading, now, focus>>
    /\ UNCHANGED pageVars
    /\ UNCHANGED notChatPage

\* the error toast is closed, by its button or after 5 seconds (lines 75-80, 529)
DismissError ==
    /\ OnPage
    /\ error # ""
    /\ error' = ""
    /\ UNCHANGED <<messages, loading>>
    /\ UNCHANGED browserVars
    /\ UNCHANGED <<mounted, chats, currentChatId, input, uploadedFiles, showUpload, showSearch,
                   showShortcuts, isInitialLoading, kb, listPending, creating, opening, calls,
                   serverChats, deleting, deletedChats>>
    /\ UNCHANGED notChatPage

\* createNewChat up to its await (lines 239-248), called by a handler that
\* sees `listed` as chats
CreateNewChat(listed) ==
    /\ Len(creating) < MaxNewChats
    /\ creating' = Append(creating, listed)
    /\ UNCHANGED <<messages, loading>>
    /\ UNCHANGED <<location, token, now>>
    /\ UNCHANGED <<mounted, chats, currentChatId, input, uploadedFiles, showUpload, showSearch,
                   showShortcuts, error, isInitialLoading, kb, listPending, opening, calls,
                   serverChats, deleting, deletedChats>>
    /\ UNCHANGED notChatPage

\* the New Chat button (line 554)
ClickNewChat ==
    /\ OnPage
    /\ ~AnyModal
    /\ focus' = "body"
    /\ CreateNewChat(chats)

\* Ctrl+N (lines 85-101): nothing in a text input, otherwise the createNewChat
\* the listener was registered with
KeyCtrlN ==
    /\ OnPage
    /\ ~InTextInput
    /\ UNCHANGED focus
    /\ CreateNewChat(kb.chats)

\* createNewChat after its await (lines 249-258): with an OK answer the chat
\* is put before the chats the call sees and made current, messages and
\* uploaded files are cleared
NewChatAnswer ==
    /\ OnPage
    /\ \E i \in DOMAIN creating :
          /\ creating' = Without(creating, i)
          /\ \/ /\ NewChatId <= Len(ExistingChats) + MaxNewChats
                /\ LET chat == NewChatId
                   IN  /\ serverChats' = <<chat>> \o serverChats
                       /\ chats' = <<chat>> \o creating[i]
                       /\ currentChatId' = chat
                /\ messages' = <<>>
                /\ uploadedFiles' = 0
             \/ UNCHANGED <<serverChats, chats, currentChatId, messages, uploadedFiles>>
    /\ UNCHANGED loading
    /\ UNCHANGED browserVars
    /\ UNCHANGED <<mounted, input, showUpload, showSearch, showShortcuts, error,
                   isInitialLoading, listPending, opening, calls, deleting, deletedChats>>
    /\ UNCHANGED notChatPage
    /\ KeyListener

\* a click on a chat of the list (line 575): loadChat up to its await (lines
\* 262-266)
LoadChat ==
    /\ OnPage
    /\ ~AnyModal
    /\ ~isInitialLoading
    /\ Len(opening) < MaxOpening
    /\ \E i \in DOMAIN chats :
          /\ currentChatId' = chats[i]
          /\ opening' = Append(opening, chats[i])
    /\ focus' = "body"
    /\ UNCHANGED <<messages, loading, location, token, now>>
    /\ UNCHANGED <<mounted, chats, input, uploadedFiles, showUpload, showSearch,
                   showShortcuts, error, isInitialLoading, listPending, creating, calls,
                   serverChats, deleting, deletedChats>>
    /\ UNCHANGED notChatPage
    /\ KeyListener

\* loadChat after its await (lines 267-279): an OK answer sets the messages
LoadAnswer ==
    /\ OnPage
    /\ \E i \in DOMAIN opening :
          /\ opening' = Without(opening, i)
          /\ \/ messages' = ServerMessages(opening[i])
             \/ UNCHANGED messages
    /\ UNCHANGED loading
    /\ UNCHANGED browserVars
    /\ UNCHANGED <<mounted, chats, currentChatId, input, uploadedFiles, showUpload, showSearch,
                   showShortcuts, error, isInitialLoading, kb, listPending, creating, calls,
                   serverChats, deleting, deletedChats>>
    /\ UNCHANGED notChatPage

\* a click on something that is not a text input
ClickBody ==
    /\ OnPage
    /\ focus # "body"
    /\ focus' = "body"
    /\ UNCHANGED <<messages, loading, location, token, now>>
    /\ UNCHANGED pageVars
    /\ UNCHANGED notChatPage

\* the Shortcuts button (lines 586-588)
ClickShortcuts ==
    /\ OnPage
    /\ ~AnyModal
    /\ showShortcuts' = TRUE
    /\ focus' = "body"
    /\ UNCHANGED <<messages, loading, location, token, now>>
    /\ UNCHANGED <<mounted, chats, currentChatId, input, uploadedFiles, showUpload, showSearch,
                   error, isInitialLoading, kb, listPending, creating, opening, calls,
                   serverChats, deleting, deletedChats>>
    /\ UNCHANGED notChatPage

\* the close button or the overlay of an open modal (lines 773-777, 816-820,
\* 859-863)
CloseModal ==
    /\ OnPage
    /\ \/ showSearch /\ showSearch' = FALSE /\ UNCHANGED <<showUpload, showShortcuts>>
       \/ showUpload /\ showUpload' = FALSE /\ UNCHANGED <<showSearch, showShortcuts>>
       \/ showShortcuts /\ showShortcuts' = FALSE /\ UNCHANGED <<showSearch, showUpload>>
    /\ focus' = "body"
    /\ UNCHANGED <<messages, loading, location, token, now>>
    /\ UNCHANGED <<mounted, chats, currentChatId, input, uploadedFiles, error,
                   isInitialLoading, kb, listPending, creating, opening, calls, serverChats, deleting,
                   deletedChats>>
    /\ UNCHANGED notChatPage

\* Ctrl+/ (lines 85-107): nothing in a text input, otherwise the shortcuts
\* modal is shown
KeyCtrlSlash ==
    /\ OnPage
    /\ ~InTextInput
    /\ showShortcuts' = TRUE
    /\ UNCHANGED <<messages, loading>>
    /\ UNCHANGED browserVars
    /\ UNCHANGED <<mounted, chats, currentChatId, input, uploadedFiles, showUpload, showSearch,
                   error, isInitialLoading, kb, listPending, creating, opening, calls,
                   serverChats, deleting, deletedChats>>
    /\ UNCHANGED notChatPage

\* The modals shown after handleKeyDown has handled Escape (lines 86-116):
\* with a text input as target the handler returns before it looks at the key.
AfterEscape ==
    IF InTextInput
    THEN [upload |-> showUpload, search |-> showSearch, shortcuts |-> showShortcuts]
    ELSE [upload |-> FALSE, search |-> FALSE, shortcuts |-> FALSE]

\* the Escape key; outside a text input the message input is focused as well
\* (line 115)
KeyEscape ==
    /\ OnPage
    /\ showUpload' = AfterEscape.upload
    /\ showSearch' = AfterEscape.search
    /\ showShortcuts' = AfterEscape.shortcuts
    /\ focus' = IF InTextInput \/ loading THEN focus ELSE "message"
    /\ UNCHANGED <<messages, loading, location, token, now>>
    /\ UNCHANGED <<mounted, chats, currentChatId, input, uploadedFiles, error,
                   isInitialLoading, kb, listPending, creating, opening, calls, serverChats, deleting,
                   deletedChats>>
    /\ UNCHANGED notChatPage

\* /chat is opened, with or without a stored token
InitNav ==
    /\ messages = <<>>
    /\ TurnIdle
    /\ RegistryIdle
    /\ FilesIdle
    /\ LayoutIdle
    /\ AuthIdle
    /\ PageIdle
    /\ location = "/chat"
    /\ token \in {"none", "tok"}
    /\ now = 1
    /\ focus = "body"

NextNav ==
    \/ Mount
    \/ ChatListAnswer
    \/ HandleLogout
    \/ DismissError
    \/ ClickNewChat
    \/ KeyCtrlN
    \/ NewChatAnswer
    \/ LoadChat
    \/ LoadAnswer
    \/ FocusMessage
    \/ TypeInput
    \/ ClickBody
    \/ ClickSearch
    \/ ClickShortcuts
    \/ OpenUpload
    \/ FileUploaded
    \/ CloseModal
    \/ KeyCtrlSlash
    \/ KeyEscape

SpecNav == InitNav /\ [][NextNav]_vars

\* ---- C14 ----

\* a createNewChat call got its OK answer in this step
NewChatCreated ==
    /\ Len(creating') < Len(creating)
    /\ Len(serverChats') = Len(serverChats) + 1

\* C14: a new chat started by the New Chat button or by Ctrl+N outside a text
\* input is put at the head of the sidebar list, every chat listed before
\* stays listed behind it, it becomes the current chat, and messages and
\* pending uploaded files are cleared.
C14_NewChatAtHead ==
    [][NewChatCreated =>
          /\ chats' = <<Head(serverChats')>> \o chats
          /\ currentChatId' = Head(serverChats')
          /\ messages' = <<>>
          /\ uploadedFiles' = 0]_vars

\* ---- C16 ----

\* C16: Ctrl+/ pressed with the focus outside a text input opens the chat
\* search modal (showSearch becomes true).
C16_CtrlSlashOpensSearch ==
    [][(KeyCtrlSlash /\ ~InTextInput) => showSearch']_vars

\* ---- C17 ----

\* C17: in every state where the upload, search or shortcuts modal is open,
\* Escape closes the modals, also when the search modal's input has the focus.
C17_EscapeClosesModals ==
    (OnPage /\ AnyModal) =>
       /\ ~AfterEscape.upload
       /\ ~AfterEscape.search
       /\ ~AfterEscape.shortcuts

\* ---- C19 ----

\* what the session handlers have done in a step
C19_SessionStep ==
    /\ (Mount /\ token = "none") =>
          location' = "/auth" /\ listPending' = 0
    /\ ListAnswered(401) =>
          token' = "none" /\ location' = "/auth"
    /\ (\E status \in ListStatuses : ListAnswered(status)) =>
          isInitialLoading' = FALSE
    /\ HandleLogout =>
          token' = "none" /\ location' = "/"

\* C19: the chat page is usable only with a stored token: without one the
\* mounted page pushes /auth and issues no chat-list request; a chat-list
\* request answered 401 removes the token and pushes /auth; logging out
\* removes the token and pushes the landing page; isInitialLoading is false
\* once fetchChats has finished, whatever the answer.
C19_Session ==
    /\ [](OnPage => token # "none")
    /\ [](token = "none" /\ location = "/chat" => listPending = 0)
    /\ [][C19_SessionStep]_vars

\* the chat list was answered 401: the token is gone and /auth is shown
C19_Witness ==
    /\ mounted
    /\ token = "none"
    /\ location = "/auth"
    /\ listPending = 0
    /\ ~isInitialLoading

\* ---- C15 ----

\* the user messages of a list
IsUser(mm) == mm.role = "user"
UserMessages(ms) == Len(SelectSeq(ms, IsUser))

\* C15: Enter, or Ctrl+Enter, pressed once in the message input with
\* non-blank text sends the message exactly once: one sendMessage call goes
\* on, and in an opened chat one POST is issued and one user message appended.
C15_EnterSendsOnce ==
    [][\A ctrl \in BOOLEAN :
          (EnterPressed(ctrl, FALSE) /\ focus = "message" /\ Trim(input) # "") =>
             /\ Len(calls') = Len(calls) + 1
             /\ currentChatId # 0 =>
                   /\ Posts(calls') = Posts(calls) + 1
                   /\ UserMessages(messages') = UserMessages(messages) + 1]_vars

\* ---- C20 ----

\* C20: at most one message stream is in flight, and while loading is true no
\* step of the page issues another POST to a chat's message endpoint.
C20_OneStreamInFlight ==
    [][/\ loading => Posts(calls') = Posts(calls)
       /\ Len(SelectSeq(calls', InFlight)) <= 1]_vars

\* ---- C18 ----

\* what the layout's handlers have done in a step
C18_ThemeStep ==
    /\ ToggleTheme =>
          /\ theme' # theme
          /\ savedTheme' = theme'
          /\ dataTheme' = theme'
    /\ (LayoutMount /\ savedTheme = "none") =>
          theme' = "dark" /\ dataTheme' = "dark"

\* C18: the theme is always 'dark' or 'light'; a toggle switches between the
\* two and leaves the theme state, the saved 'theme' item and the document's
\* data-theme attribute equal; toggling twice restores the theme; with nothing
\* saved the theme loaded on mount is 'dark'.
C18_Theme ==
    /\ [](theme \in {"dark", "light"})
    /\ [](Other(Other(theme)) = theme)
    /\ [](layoutMounted => (dataTheme = theme /\ savedTheme \in {"none", theme}))
    /\ [][C18_ThemeStep]_vars

\* the light theme is on, saved and set on the document
C18_Witness ==
    /\ layoutMounted
    /\ theme = "light"
    /\ savedTheme = "light"
    /\ dataTheme = "light"


----------------------------------------------------------------------------
\* The chat page while chats are opened, created and deleted and messages are
\* sent.

\* at most MaxDeleting deleteChat calls await their answer
MaxDeleting == 1
\* while chats are opened, created and deleted, at most MaxChatCalls calls of
\* sendMessage / convertToFile are made
MaxChatCalls == 1

\* The delete button of a listed chat, with the confirm dialog accepted (lines
\* 579, 283-292): deleteChat up to its await.  The click does not reach the
\* chat item (stopPropagation); a declined dialog changes nothing.
DeleteChat ==
    /\ OnPage
    /\ ~AnyModal
    /\ ~isInitialLoading
    /\ Len(deleting) < MaxDeleting
    /\ \E i \in DOMAIN chats :
          deleting' = Append(deleting, [chat |-> chats[i], chats |-> chats,
                                        currentChatId |-> currentChatId])
    /\ focus' = "body"
    /\ UNCHANGED <<messages, loading, location, token, now>>
    /\ UNCHANGED <<mounted, chats, currentChatId, input, uploadedFiles, showUpload, showSearch,
                   showShortcuts, error, isInitialLoading, kb, listPending, creating, opening,
                   calls, serverChats, deletedChats>>
    /\ UNCHANGED notChatPage

\* what the DELETE request came to: the server deleted the chat, the server
\* answered without deleting it (an error status), or fetch rejected
DeleteOutcomes == {"deleted", "refused", "rejected"}

\* deleteChat after its await (lines 293-301).  Whatever the status of the
\* answer, the chat is taken out of the `chats` the call sees, and if it was
\* the current chat when the button was clicked, no chat is current and the
\* messages are cleared; a rejected fetch only alerts.
DeleteAnswer ==
    /\ OnPage
    /\ \E i \in DOMAIN deleting : \E outcome \in DeleteOutcomes :
          LET d == deleting[i]
              Kept(c) == c # d.chat
          IN  /\ deleting' = Without(deleting, i)
              /\ IF outcome = "deleted"
                 THEN /\ serverChats' = SelectSeq(serverChats, Kept)
                      /\ deletedChats' = IF \E j \in DOMAIN serverChats : serverChats[j] = d.chat
                                         THEN deletedChats \cup {d.chat}
                                         ELSE deletedChats
                 ELSE UNCHANGED <<serverChats, deletedChats>>
              /\ IF outcome = "rejected"
                 THEN UNCHANGED <<chats, currentChatId, messages>>
                 ELSE /\ chats' = SelectSeq(d.chats, Kept)
                      /\ IF d.currentChatId = d.chat
                         THEN currentChatId' = 0 /\ messages' = <<>>
                         ELSE UNCHANGED <<currentChatId, messages>>
    /\ UNCHANGED loading
    /\ UNCHANGED browserVars
    /\ UNCHANGED <<mounted, input, uploadedFiles, showUpload, showSearch, showShortcuts, error,
                   isInitialLoading, listPending, creating, opening, calls>>
    /\ UNCHANGED notChatPage
    /\ KeyListener

\* The chat page of a signed-in user after its chat list has arrived, with no
\* chat opened yet, or with the stored chat opened and loaded, and after a
\* message has been typed: the keydown listener is the one of the render that
\* followed the typing.
InitChats ==
    /\ TurnIdle
    /\ RegistryIdle
    /\ FilesIdle
    /\ LayoutIdle
    /\ AuthIdle
    /\ location = "/chat"
    /\ token = "tok"
    /\ now = 1
    /\ focus = "message"
    /\ mounted = TRUE
    /\ chats = ExistingChats
    /\ serverChats = ExistingChats
    /\ deleting = <<>>
    /\ deletedChats = {}
    /\ currentChatId \in {0, 1}
    /\ messages = IF currentChatId = 0 THEN <<>> ELSE LoadedMessages
    /\ input = "q"
    /\ uploadedFiles = 0
    /\ kb = Closure
    /\ showUpload = FALSE
    /\ showSearch = FALSE
    /\ showShortcuts = FALSE
    /\ error = ""
    /\ isInitialLoading = FALSE
    /\ listPending = 0
    /\ creating = <<>>
    /\ opening = <<>>
    /\ calls = <<>>

\* the send button, within the bound on calls
SendInChat == Len(calls) < MaxChatCalls /\ ClickSend

\* a Word/PDF/PPT/Voice button, within the bound on calls
ConvertInChat == Len(calls) < MaxChatCalls /\ ClickConvert

\* The steps of the page while chats are opened, created and deleted and the
\* typed message is sent or an answer converted; the chat-list request that
\* sendMessage starts at its end stays unanswered.
NextChats ==
    \/ ClickNewChat
    \/ NewChatAnswer
    \/ LoadChat
    \/ LoadAnswer
    \/ DeleteChat
    \/ DeleteAnswer
    \/ SendInChat
    \/ ConvertInChat
    \/ SendChatAnswer
    \/ PostAnswered
    \/ StreamEvent
    \/ StreamEnd
    \/ CallFailed

SpecChats == InitChats /\ [][NextChats]_vars


\* ---- C21 ----

\* no request of the page awaits its answer
NoRequestInFlight ==
    /\ opening = <<>>
    /\ creating = <<>>
    /\ deleting = <<>>
    /\ listPending = 0
    /\ \A k \in DOMAIN calls : calls[k].pc \notin {"creating", "posting", "reading"}

\* m is a message of chat c: one the server stores for it, or the user
\* message or the assistant message of a call that posted to it
MessageOf(m, c) ==
    /\ c # 0
    /\ \/ \E i \in DOMAIN ServerMessages(c) : ServerMessages(c)[i] = m
       \/ \E k \in DOMAIN calls :
             /\ calls[k].chat = c
             /\ \/ m.role = "user" /\ m = calls[k].um
                \/ /\ m.role = "assistant"
                   /\ calls[k].am.role = "assistant"
                   /\ m.id = calls[k].am.id

\* C21: the displayed messages always belong to the current chat: whatever
\* the interleaving of loadChat, createNewChat, deleteChat and the streams of
\* sendMessage / convertToFile, once no request is in flight every message in
\* the messages list is a message of the chat identified by currentChatId.
C21_MessagesOfCurrentChat ==
    (OnPage /\ NoRequestInFlight) =>
        \A i \in DOMAIN messages : MessageOf(messages[i], currentChatId)


----------------------------------------------------------------------------
\* The download buttons of an assistant message: extractDownloadableFiles
\* (frontend/app/chat/page.tsx, lines 122-142) and its calls in the render
\* (lines 676-689).
\*
\* The content is a sequence of tokens, one for each piece of text the regular
\* expression of line 126 tells apart: the tags "[FILE]:" and
\* "[DOWNLOAD_LINK]:" in any case, a dot followed by one of the seven
\* extensions in any case, "*", white space other than a newline, a newline,
\* and any other text without white space.

\* a content is made of at most MaxPieces pieces
MaxPieces == 3

FileTag      == Tok("file", "[FILE]:")
LowerFileTag == Tok("file", "[file]:")
LinkTag      == Tok("link", "[DOWNLOAD_LINK]:")
Star         == Tok("star", "*")
Text(v)      == Tok("text", v)
\* "." followed by the extension x
Ext(x)       == Tok("ext", x)

\* the extensions written in a content (besides "Docx")
Extensions ==
    {"pdf", "docx", "doc", "pptx", "ppt", "wav", "mp3", "PDF"}

\* String.prototype.toLowerCase on an extension
ToLowerCase(x) ==
    CASE x = "PDF"  -> "pdf"
      [] x = "Docx" -> "docx"
      [] OTHER      -> x

\* a file announced with its download link, each on a line of its own
Declaration(name, x, link) ==
    <<FileTag, Space, Text(name), Ext(x), NL, LinkTag, Space, Text(link), NL>>

\* the same in bold
BoldDeclaration(name, x, link) ==
    <<FileTag, Space, Star, Star, Text(name), Ext(x), Star, Star, NL,
      LinkTag, Space, Star, Star, Text(link), Star, Star, NL>>

\* The pieces of a content in which the extension x is written: single
\* tokens, declarations of the file a.x with two links, plain and in bold, a
\* declaration of another file, and a file line without a link, its tag in
\* lower case.
Pieces(x) ==
    { <<Text("a")>>, <<LinkTag>>, <<Ext(x)>>,
      Declaration("a", x, "/x"),
      Declaration("a", x, "/y"),
      BoldDeclaration("a", x, "/z"),
      Declaration("b", "Docx", "/x"),
      <<LowerFileTag, Space, Text("b"), Ext(x), NL>> }

RECURSIVE Join(_)
Join(ps) == IF ps = <<>> THEN <<>> ELSE Head(ps) \o Join(Tail(ps))

Max(S) == CHOOSE n \in S : \A m \in S : m <= n
Min(S) == CHOOSE n \in S : \A m \in S : n <= m

\* \s
IsSpace(t) == t.k \in {"sp", "nl"}

\* \s* from position i: the number of tokens it takes at most
RECURSIVE SpaceRun(_, _)
SpaceRun(c, i) == IF i <= Len(c) /\ IsSpace(c[i]) THEN 1 + SpaceRun(c, i + 1) ELSE 0

\* [^\n\s]+ from position i: the number of tokens it takes (greedy)
RECURSIVE WordRun(_, _)
WordRun(c, i) == IF i <= Len(c) /\ ~IsSpace(c[i]) THEN 1 + WordRun(c, i + 1) ELSE 0

\* \[DOWNLOAD_LINK\]:\s*([^\n\s]+) matches at position q
LinkAt(c, q) == c[q].k = "link" /\ WordRun(c, q + 1 + SpaceRun(c, q + 1)) > 0

NoMatch == [found |-> FALSE, g1 |-> <<>>, g2 |-> "", g3 |-> <<>>, lastIndex |-> 1]

\* The match of newFormatRegex (line 126) that starts at position p, as the
\* backtracking finds it: \s* takes as much white space as leaves a match,
\* [^\n]+ then as much of the line as leaves one, ending before the last dot
\* with an extension that has a link tag with a link somewhere after it;
\* [\s\S]*? runs to the first such tag.  lastIndex is the position after the
\* match.
MatchAt(c, p) ==
    LET Links(e) == {q \in (e + 1)..Len(c) : LinkAt(c, q)}
        Ends(a) == {e \in (a + 1)..Len(c) :
                      /\ c[e].k = "ext"
                      /\ \A i \in a..(e - 1) : c[i].k # "nl"
                      /\ Links(e) # {}}
        Starts == {s \in 0..SpaceRun(c, p + 1) : Ends(p + 1 + s) # {}}
    IN  IF c[p].k # "file" \/ Starts = {}
        THEN NoMatch
        ELSE LET a == p + 1 + Max(Starts)
                 e == Max(Ends(a))
                 q == Min(Links(e))
                 w == q + 1 + SpaceRun(c, q + 1)
             IN  [found |-> TRUE,
                  g1 |-> SubSeq(c, a, e),
                  g2 |-> c[e].v,
                  g3 |-> SubSeq(c, w, w + WordRun(c, w) - 1),
                  lastIndex |-> w + WordRun(c, w)]

\* newFormatRegex.exec(content) with the search starting at lastIndex (line
\* 128): the first position from there at which the expression matches
Exec(c, lastIndex) ==
    LET ps == {p \in lastIndex..Len(c) : c[p].k = "file" /\ MatchAt(c, p).found}
    IN  IF ps = {} THEN NoMatch ELSE MatchAt(c, Min(ps))

\* text.trim()
RECURSIVE TrimSpace(_)
TrimSpace(text) ==
    IF text # <<>> /\ IsSpace(Head(text)) THEN TrimSpace(Tail(text))
    ELSE IF text # <<>> /\ IsSpace(text[Len(text)]) THEN TrimSpace(SubSeq(text, 1, Len(text) - 1))
    ELSE text

NotStar(t) == t.k # "star"

\* cleanMarkdown (line 125): text.replace(/\*+/g, '').trim()
CleanMarkdown(text) == TrimSpace(SelectSeq(text, NotStar))

\* a find that finds nothing
FindsNone(files, filename) == FALSE

\* files.find(f => f.filename === filename) (line 132)
Find(files, filename) == \E i \in DOMAIN files : files[i].filename = filename

\* lines 133-137
FileType(ext) ==
    IF ext = "pdf" THEN "pdf"
    ELSE IF ext = "docx" \/ ext = "doc" THEN "word"
    ELSE IF ext = "wav" \/ ext = "mp3" THEN "audio"
    ELSE IF ext = "pptx" \/ ext = "ppt" THEN "pptx"
    ELSE "file"

\* the while loop (lines 128-140), with the regular expression's lastIndex
RECURSIVE ExecLoop(_, _, _)
ExecLoop(c, lastIndex, files) ==
    LET match == Exec(c, lastIndex)
        filename == CleanMarkdown(match.g1)
        ext == ToLowerCase(match.g2)
        downloadLink == CleanMarkdown(match.g3)
    IN  IF ~match.found
        THEN files
        ELSE ExecLoop(c, match.lastIndex,
                      IF Find(files, filename)
                      THEN files
                      ELSE Append(files, [filename |-> filename, downloadLink |-> downloadLink,
                                          type |-> FileType(ext)]))

\* extractDownloadableFiles(content) (lines 123-142): the list and the regular
\* expression are made anew by every call
ExtractDownloadableFiles(c) == ExecLoop(c, 1, <<>>)

\* what no step of the render touches
notFiles == <<clientVars, wireVars, serverVars, registryVars, browserVars, pageVars,
              layoutVars, authVars>>

\* line 676: the render asks whether the message has downloadable files
RenderTest ==
    /\ shownFiles = <<>>
    /\ shownFiles' = <<ExtractDownloadableFiles(shownContent)>>
    /\ UNCHANGED shownContent
    /\ UNCHANGED notFiles

\* line 679: if it has, the render calls extractDownloadableFiles again for
\* the buttons
RenderButtons ==
    /\ Len(shownFiles) = 1
    /\ Len(shownFiles[1]) > 0
    /\ shownFiles' = Append(shownFiles, ExtractDownloadableFiles(shownContent))
    /\ UNCHANGED shownContent
    /\ UNCHANGED notFiles

\* an assistant message with some content is about to be rendered
InitFiles ==
    /\ messages = <<>>
    /\ TurnIdle
    /\ RegistryIdle
    /\ LayoutIdle
    /\ AuthIdle
    /\ PageIdle
    /\ BrowserIdle
    /\ \E x \in Extensions : \E n \in 0..MaxPieces : \E ps \in [1..n -> Pieces(x)] :
          shownContent = Join(ps)
    /\ shownFiles = <<>>

NextFiles ==
    \/ RenderTest
    \/ RenderButtons

SpecFiles == InitFiles /\ [][NextFiles]_vars


\* ---- C22 ----

\* the matches of the regular expression in a content, in order, found from
\* position lastIndex on
RECURSIVE Matches(_, _)
Matches(c, lastIndex) ==
    LET match == Exec(c, lastIndex)
    IN  IF match.found THEN <<match>> \o Matches(c, match.lastIndex) ELSE <<>>

\* the first of the matches ms that names the file
FirstMatch(ms, filename) ==
    Min({k \in DOMAIN ms : CleanMarkdown(ms[k].g1) = filename})

\* the type that goes with the extension of a file name, whatever its case
TypeByExtension(filename) ==
    LET last == filename[Len(filename)]
        x == IF last.k = "ext" THEN ToLowerCase(last.v) ELSE "none"
    IN  CASE x = "pdf"              -> "pdf"
          [] x \in {"doc", "docx"}  -> "word"
          [] x \in {"wav", "mp3"}   -> "audio"
          [] x \in {"ppt", "pptx"}  -> "pptx"
          [] OTHER                  -> "none"

\* files has one entry for each file name of the matches ms, in the order
\* of their first matches, with the link of the first match and the type of
\* the extension
OnePerFilename(files, ms) ==
    /\ \A k \in DOMAIN ms : \E i \in DOMAIN files : files[i].filename = CleanMarkdown(ms[k].g1)
    /\ \A i \in DOMAIN files : \E k \in DOMAIN ms : files[i].filename = CleanMarkdown(ms[k].g1)
    /\ \A i, j \in DOMAIN files :
          i < j => /\ files[i].filename # files[j].filename
                   /\ FirstMatch(ms, files[i].filename) < FirstMatch(ms, files[j].filename)
    /\ \A i \in DOMAIN files :
          /\ files[i].downloadLink = CleanMarkdown(ms[FirstMatch(ms, files[i].filename)].g3)
          /\ files[i].type = TypeByExtension(files[i].filename)

\* C22: extractDownloadableFiles is a pure function of the content: for the
\* matches of [FILE] / [DOWNLOAD_LINK] in it, it returns one entry for each
\* distinct file name in the order of first occurrence, with the download
\* link of the first match, and a type given by the extension whatever its
\* case (pdf: 'pdf', doc and docx: 'word', wav and mp3: 'audio', ppt and pptx:
\* 'pptx'); two calls on the same content return equal lists.
C22_ExtractedFiles ==
    LET ms == Matches(shownContent, 1)
    IN  \A n \in DOMAIN shownFiles :
           /\ OnePerFilename(shownFiles[n], ms)
           /\ shownFiles[n] = shownFiles[1]

\* both calls of a render have returned; the content has three matches, the
\* third naming the file of the first with another link, and an extension
\* written in upper case
C22_Witness ==
    /\ Len(shownFiles) = 2
    /\ LET ms == Matches(shownContent, 1)
       IN  /\ Len(ms) = 3
           /\ CleanMarkdown(ms[1].g1) = CleanMarkdown(ms[3].g1)
           /\ ms[1].g3 # ms[3].g3
           /\ CleanMarkdown(ms[1].g1) # CleanMarkdown(ms[2].g1)
           /\ ms[1].g2 # ToLowerCase(ms[1].g2)
           /\ Len(shownFiles[2]) = 2

====
